---- MODULE Spec2Model ----
(***************************************************************************)
(* polyplug: the listener registry and its JSON correlation protocol       *)
(* (plug, remove, receive, update, print), the node classes and the        *)
(* HTMLTokenizer, with the pieces of the Python runtime they rest on       *)
(* (str, dict, truthiness, json.loads, json.dumps, exceptions).            *)
(*                                                                         *)
(* A Python str is a TLA+ string; SubSeq, Len and \o act on it character   *)
(* by character.  A Python value that json.loads can produce is a tagged   *)
(* record:                                                                 *)
(*    None   [t |-> "NoneType"]                                            *)
(*    bool   [t |-> "bool", b |-> TRUE]                                    *)
(*    int    [t |-> "int",  n |-> 5]                                       *)
(*    str    [t |-> "str",  s |-> "abc"]                                   *)
(*    list   [t |-> "list", a |-> << v1, v2 >>]                            *)
(*    dict   [t |-> "dict", d |-> << <<k1, v1>>, <<k2, v2>> >>]            *)
(* a dict keeps its keys in insertion order, as Python's does.             *)
(***************************************************************************)
EXTENDS Integers, Sequences, FiniteSets, TLC

(* ------------------------------ str ----------------------------------- *)

At(s, i) == IF i >= 1 /\ i <= Len(s) THEN SubSeq(s, i, i) ELSE ""

Letters ==
    {"a", "b", "c", "d", "e", "f", "g", "h", "i", "j", "k", "l", "m", "n", "o",
     "p", "q", "r", "s", "t", "u", "v", "w", "x", "y", "z",
     "A", "B", "C", "D", "E", "F", "G", "H", "I", "J", "K", "L", "M", "N", "O",
     "P", "Q", "R", "S", "T", "U", "V", "W", "X", "Y", "Z"}

Digits == {"0", "1", "2", "3", "4", "5", "6", "7", "8", "9"}

Whitespace == {" ", "\t", "\n", "\r"}

\* str.isalpha(): at least one character, and all of them alphabetic
isalpha(s) == Len(s) > 0 /\ \A i \in 1..Len(s) : At(s, i) \in Letters

DigitChar(d) ==
    CASE d = 0 -> "0" [] d = 1 -> "1" [] d = 2 -> "2" [] d = 3 -> "3"
      [] d = 4 -> "4" [] d = 5 -> "5" [] d = 6 -> "6" [] d = 7 -> "7"
      [] d = 8 -> "8" [] OTHER -> "9"

DigitValue(c) == CHOOSE d \in 0..9 : DigitChar(d) = c

RECURSIVE StrOfNat(_)
StrOfNat(n) == IF n < 10 THEN DigitChar(n)
               ELSE StrOfNat(n \div 10) \o DigitChar(n % 10)

\* str(n) for an int
StrOfInt(n) == IF n < 0 THEN "-" \o StrOfNat(0 - n) ELSE StrOfNat(n)

(* --------------------------- Python values ----------------------------- *)

PyNone == [t |-> "NoneType"]

PyBool(b) == [t |-> "bool", b |-> b]

PyInt(n) == [t |-> "int", n |-> n]

PyStr(s) == [t |-> "str", s |-> s]

PyList(a) == [t |-> "list", a |-> a]

PyDict(d) == [t |-> "dict", d |-> d]

\* type(v).__name__
TypeName(v) == v.t

\* bool(v): None, False, 0, "", [] and {} are falsy
Truthy(v) ==
    CASE v.t = "NoneType" -> FALSE
      [] v.t = "bool" -> v.b
      [] v.t = "int" -> v.n # 0
      [] v.t = "str" -> v.s # ""
      [] v.t = "list" -> Len(v.a) > 0
      [] v.t = "dict" -> Len(v.d) > 0
      [] OTHER -> TRUE

\* hash(v) succeeds: list and dict are unhashable
Hashable(v) == v.t \notin {"list", "dict"}

HasKey(d, k) == \E i \in 1..Len(d) : d[i][1] = k

KeyIndex(d, k) == CHOOSE i \in 1..Len(d) : d[i][1] = k

\* d.get(k, default) on the pair list of a dict
DictGet(d, k, default) == IF HasKey(d, k) THEN d[KeyIndex(d, k)][2] ELSE default

\* d[k] = v: an existing key keeps its place and takes the new value
DictSet(d, k, v) ==
    IF HasKey(d, k) THEN [d EXCEPT ![KeyIndex(d, k)] = <<k, v>>]
    ELSE Append(d, <<k, v>>)

\* An exception object: its class name, whether the class derives from
\* Exception (SystemExit, KeyboardInterrupt and GeneratorExit derive from
\* BaseException only), and str(ex).
Exc(cls, msg) == [cls |-> cls, isException |-> TRUE, msg |-> msg]

BaseExc(cls, msg) == [cls |-> cls, isException |-> FALSE, msg |-> msg]

\* repr of a str without quote characters, as str(KeyError(k)) shows it
ReprStr(s) == "'" \o s \o "'"

(* ---------------------------- json.loads ------------------------------- *)
(* The decoder of the standard library (json.decoder, json.scanner) on a   *)
(* str, one definition per step of its loops.  Positions are 1-based here  *)
(* and 0-based in Python's messages.  A scan yields                        *)
(* [k |-> "val", v, end] (end: the next position), [k |-> "stop", pos] for *)
(* StopIteration(pos), or [k |-> "err", msg, pos] for                      *)
(* JSONDecodeError(msg, doc, pos).  Numbers are integers; fractions,       *)
(* exponents, NaN, Infinity and \u, \b escapes are in no input the model   *)
(* draws.                                                                  *)

JVal(v, end) == [k |-> "val", v |-> v, end |-> end]

JStop(pos) == [k |-> "stop", pos |-> pos]

JErr(msg, pos) == [k |-> "err", msg |-> msg, pos |-> pos]

RECURSIVE SkipWs(_, _)
\* WHITESPACE.match(s, i).end()
SkipWs(s, i) == IF At(s, i) \in Whitespace THEN SkipWs(s, i + 1) ELSE i

RECURSIVE DigitsEnd(_, _)
DigitsEnd(s, i) == IF At(s, i) \in Digits THEN DigitsEnd(s, i + 1) ELSE i

RECURSIVE NatOfStr(_)
NatOfStr(s) ==
    IF Len(s) = 0 THEN 0
    ELSE 10 * NatOfStr(SubSeq(s, 1, Len(s) - 1)) + DigitValue(At(s, Len(s)))

\* the integer NUMBER_RE matched from j to e - 1, negative when a "-" at i
\* precedes it; no match is StopIteration(i)
NumberFrom(s, i, j, e) ==
    IF e = j THEN JStop(i)
    ELSE JVal(PyInt(IF j > i THEN 0 - NatOfStr(SubSeq(s, j, e - 1))
                    ELSE NatOfStr(SubSeq(s, j, e - 1))), e)

\* NUMBER_RE at position j: (0|[1-9][0-9]*)
DigitsFrom(s, i, j) ==
    NumberFrom(s, i, j, IF At(s, j) = "0" THEN j + 1 ELSE DigitsEnd(s, j))

\* NUMBER_RE at position i: -?(0|[1-9][0-9]*)
ScanNumber(s, i) == DigitsFrom(s, i, IF At(s, i) = "-" THEN i + 1 ELSE i)

\* BACKSLASH[esc]
Unescape(esc) ==
    CASE esc = "n" -> "\n" [] esc = "r" -> "\r" [] esc = "t" -> "\t"
      [] esc = "f" -> "\f" [] OTHER -> esc

(* py_scanstring reads a string chunk by chunk, a chunk ending at a quote,  *)
(* a backslash or a control character.  The position where its loop ends   *)
(* (the closing quote or the first error) is found here by halving the     *)
(* text at a position that no escape straddles, which keeps the recursion  *)
(* shallow on long strings; the content is unescaped the same way.         *)

\* the characters BACKSLASH maps ("b" apart: no input of the model holds it)
Escapes == {"\"", "\\", "/", "f", "n", "r", "t"}

\* the control characters STRINGCHUNK stops at
Controls == {"\t", "\n", "\r", "\f"}

RECURSIVE SafeSplit(_, _)
\* the first position from k on whose predecessor is no backslash
SafeSplit(s, k) == IF At(s, k - 1) = "\\" THEN SafeSplit(s, k + 1) ELSE k

RECURSIVE StopLinear(_, _, _)
\* the first position in lo..hi where py_scanstring's loop ends, hi + 1 when
\* there is none: a quote, a control character, or a backslash that starts
\* no escape of BACKSLASH
StopLinear(s, lo, hi) ==
    CASE lo > hi -> hi + 1
      [] At(s, lo) = "\"" \/ At(s, lo) \in Controls -> lo
      [] At(s, lo) # "\\" -> StopLinear(s, lo + 1, hi)
      [] At(s, lo + 1) \in Escapes -> StopLinear(s, lo + 2, hi)
      [] OTHER -> lo

RECURSIVE Stop(_, _, _)
\* the same, the left half decided: l is its stop, m when it has none
StopRight(s, m, hi, l) == IF l < m THEN l ELSE Stop(s, m, hi)

\* the same, lo..hi halved at m
StopHalves(s, lo, hi, m) ==
    IF m > hi THEN StopLinear(s, lo, hi)
    ELSE StopRight(s, m, hi, Stop(s, lo, m - 1))

\* the same, for a text of any length
Stop(s, lo, hi) ==
    IF hi - lo < 16 THEN StopLinear(s, lo, hi)
    ELSE StopHalves(s, lo, hi, SafeSplit(s, (lo + hi) \div 2 + 1))

RECURSIVE UnescapeLinear(_)
\* the chunks of t joined, every escape replaced by what BACKSLASH maps it to
UnescapeLinear(t) ==
    CASE Len(t) = 0 -> ""
      [] At(t, 1) = "\\" -> Unescape(At(t, 2)) \o UnescapeLinear(SubSeq(t, 3, Len(t)))
      [] OTHER -> At(t, 1) \o UnescapeLinear(SubSeq(t, 2, Len(t)))

RECURSIVE UnescapeAll(_)
\* the same, t halved at m
UnescapeHalves(t, m) ==
    IF m > Len(t) THEN UnescapeLinear(t)
    ELSE UnescapeAll(SubSeq(t, 1, m - 1)) \o UnescapeAll(SubSeq(t, m, Len(t)))

\* the same, for a text of any length
UnescapeAll(t) ==
    IF Len(t) < 16 THEN UnescapeLinear(t)
    ELSE UnescapeHalves(t, SafeSplit(t, Len(t) \div 2 + 1))

\* py_scanstring's loop has ended at j, the string having begun after begin
ScanEnd(s, begin, j) ==
    CASE At(s, j) = "" -> JErr("Unterminated string starting at", begin)
      [] At(s, j) = "\"" ->
           JVal(PyStr(UnescapeAll(SubSeq(s, begin + 1, j - 1))), j + 1)
      [] At(s, j) # "\\" -> JErr("Invalid control character at", j)
      [] At(s, j + 1) = "" -> JErr("Unterminated string starting at", begin)
      [] At(s, j + 1) = "u" -> JErr("Invalid \\uXXXX escape", j)
      [] OTHER -> JErr("Invalid \\escape", j)

\* py_scanstring(s, end) with begin = end - 1, the opening quote
ScanString(s, begin) == ScanEnd(s, begin, Stop(s, begin + 1, Len(s)))

RECURSIVE scan_once(_, _)
RECURSIVE ObjectLoop(_, _, _)
RECURSIVE ArrayLoop(_, _, _)

\* JSONObject: after a pair, at the first character that is no whitespace
ObjectNext(s, pairs, next) ==
    CASE At(s, next) = "}" -> JVal(PyDict(pairs), next + 1)
      [] At(s, next) # "," -> JErr("Expecting ',' delimiter", next)
      [] At(s, SkipWs(s, next + 1)) # "\"" ->
           JErr("Expecting property name enclosed in double quotes",
                SkipWs(s, next + 1))
      [] OTHER -> ObjectLoop(s, SkipWs(s, next + 1) + 1, pairs)

\* JSONObject: the value of the key has been scanned
ObjectValue(s, pairs, key, val) ==
    CASE val.k = "stop" -> JErr("Expecting value", val.pos)
      [] val.k = "err" -> val
      [] OTHER -> ObjectNext(s, DictSet(pairs, key, val.v), SkipWs(s, val.end))

\* JSONObject: the key has been scanned, a ":" must follow at colon
ObjectColon(s, pairs, key, colon) ==
    IF At(s, colon) # ":" THEN JErr("Expecting ':' delimiter", colon)
    ELSE ObjectValue(s, pairs, key, scan_once(s, SkipWs(s, colon + 1)))

\* JSONObject: the scan of the key has ended
ObjectKey(s, pairs, key) ==
    IF key.k # "val" THEN key
    ELSE ObjectColon(s, pairs, key.v.s, SkipWs(s, key.end))

\* JSONObject's loop, i just after the opening quote of the next key
ObjectLoop(s, i, pairs) == ObjectKey(s, pairs, ScanString(s, i - 1))

\* JSONObject, j the first position after the "{" that holds no whitespace
JSONObject(s, j) ==
    CASE At(s, j) = "}" -> JVal(PyDict(<<>>), j + 1)
      [] At(s, j) # "\"" ->
           JErr("Expecting property name enclosed in double quotes", j)
      [] OTHER -> ObjectLoop(s, j + 1, <<>>)

\* JSONArray: after a value, at the first character that is no whitespace
ArrayNext(s, acc, next) ==
    CASE At(s, next) = "]" -> JVal(PyList(acc), next + 1)
      [] At(s, next) # "," -> JErr("Expecting ',' delimiter", next)
      [] OTHER -> ArrayLoop(s, SkipWs(s, next + 1), acc)

\* JSONArray: a value has been scanned
ArrayValue(s, acc, val) ==
    CASE val.k = "stop" -> JErr("Expecting value", val.pos)
      [] val.k = "err" -> val
      [] OTHER -> ArrayNext(s, Append(acc, val.v), SkipWs(s, val.end))

\* JSONArray's loop, i at the start of the next value
ArrayLoop(s, i, acc) == ArrayValue(s, acc, scan_once(s, i))

\* JSONArray, j the first position after the "[" that holds no whitespace
JSONArray(s, j) ==
    IF At(s, j) = "]" THEN JVal(PyList(<<>>), j + 1) ELSE ArrayLoop(s, j, <<>>)

\* scanner's _scan_once(string, idx)
scan_once(s, i) ==
    CASE At(s, i) = "" -> JStop(i)
      [] At(s, i) = "\"" -> ScanString(s, i)
      [] At(s, i) = "{" -> JSONObject(s, SkipWs(s, i + 1))
      [] At(s, i) = "[" -> JSONArray(s, SkipWs(s, i + 1))
      [] At(s, i) = "n" /\ i + 3 <= Len(s) /\ SubSeq(s, i, i + 3) = "null" ->
           JVal(PyNone, i + 4)
      [] At(s, i) = "t" /\ i + 3 <= Len(s) /\ SubSeq(s, i, i + 3) = "true" ->
           JVal(PyBool(TRUE), i + 4)
      [] At(s, i) = "f" /\ i + 4 <= Len(s) /\ SubSeq(s, i, i + 4) = "false" ->
           JVal(PyBool(FALSE), i + 5)
      [] OTHER -> ScanNumber(s, i)

\* the position of the last "\n" before pos, 0 when there is none
LastNewline(s, pos) ==
    CHOOSE k \in 0..(pos - 1) :
        /\ k = 0 \/ At(s, k) = "\n"
        /\ \A m \in (k + 1)..(pos - 1) : At(s, m) # "\n"

\* str(JSONDecodeError(msg, doc, pos)): the line and column of pos
DecodeErrorText(msg, s, pos) ==
    msg \o ": line "
        \o StrOfNat(Cardinality({k \in 1..(pos - 1) : At(s, k) = "\n"}) + 1)
        \o " column " \o StrOfNat(pos - LastNewline(s, pos))
        \o " (char " \o StrOfNat(pos - 1) \o ")"

JSONDecodeError(msg, s, pos) ==
    [ok |-> FALSE, ex |-> Exc("JSONDecodeError", DecodeErrorText(msg, s, pos))]

\* JSONDecoder.decode: the value has been scanned; only whitespace may follow
Decoded(s, r) ==
    CASE r.k = "stop" -> JSONDecodeError("Expecting value", s, r.pos)
      [] r.k = "err" -> JSONDecodeError(r.msg, s, r.pos)
      [] SkipWs(s, r.end) # Len(s) + 1 ->
           JSONDecodeError("Extra data", s, SkipWs(s, r.end))
      [] OTHER -> [ok |-> TRUE, v |-> r.v]

\* json.loads(s): [ok |-> TRUE, v] or [ok |-> FALSE, ex], ex a JSONDecodeError
json_loads(s) == Decoded(s, scan_once(s, SkipWs(s, 1)))

(* ---------------------------- json.dumps ------------------------------- *)

\* ESCAPE_ASCII's replacement of one character
EscapeChar(c) ==
    CASE c = "\"" -> "\\\"" [] c = "\\" -> "\\\\" [] c = "\n" -> "\\n"
      [] c = "\r" -> "\\r" [] c = "\t" -> "\\t" [] c = "\f" -> "\\f"
      [] OTHER -> c

RECURSIVE EscapeStr(_)
\* ESCAPE_ASCII.sub over s, one half after the other
EscapeStr(s) ==
    IF Len(s) = 0 THEN ""
    ELSE IF Len(s) = 1 THEN EscapeChar(s)
    ELSE EscapeStr(SubSeq(s, 1, Len(s) \div 2))
             \o EscapeStr(SubSeq(s, Len(s) \div 2 + 1, Len(s)))

\* py_encode_basestring_ascii(s)
EncodeStr(s) == "\"" \o EscapeStr(s) \o "\""

RECURSIVE json_dumps(_)
RECURSIVE DumpItems(_, _)
RECURSIVE DumpPairs(_, _)

\* the elements of a list from index i on, joined by ", "
DumpItems(a, i) ==
    IF i > Len(a) THEN ""
    ELSE (IF i > 1 THEN ", " ELSE "") \o json_dumps(a[i]) \o DumpItems(a, i + 1)

\* the items of a dict from index i on, "key": value joined by ", "
DumpPairs(d, i) ==
    IF i > Len(d) THEN ""
    ELSE (IF i > 1 THEN ", " ELSE "") \o EncodeStr(d[i][1]) \o ": "
             \o json_dumps(d[i][2]) \o DumpPairs(d, i + 1)

\* json.dumps(v) with the default separators and ensure_ascii
json_dumps(v) ==
    CASE v.t = "NoneType" -> "null"
      [] v.t = "bool" -> IF v.b THEN "true" ELSE "false"
      [] v.t = "int" -> StrOfInt(v.n)
      [] v.t = "str" -> EncodeStr(v.s)
      [] v.t = "list" -> "[" \o DumpItems(v.a, 1) \o "]"
      [] OTHER -> "{" \o DumpPairs(v.d, 1) \o "}"

(* ------------------------------- Query --------------------------------- *)

\* the end of Query.__init__: setattr stores the target under the attribute
\* that query_type names (attrs); an empty target is refused
QueryMade(query, query_type, target) ==
    IF target # ""
    THEN [ok |-> TRUE,
          q |-> [raw_query |-> query, query_type |-> query_type,
                 attrs |-> (query_type :> target)]]
    ELSE [ok |-> FALSE, ex |-> Exc("ValueError", "Bad query specification.")]

\* a faulty Query.__init__: every query is taken for a css selector
QueryCss(query) == QueryMade(query, "css", query)

\* Query.__init__(query): [ok |-> TRUE, q] or [ok |-> FALSE, ex]
Query(query) ==
    CASE At(query, 1) = "#" ->
           IF SubSeq(query, 2, Len(query)) # ""
           THEN QueryMade(query, "id", SubSeq(query, 2, Len(query)))
           ELSE [ok |-> FALSE, ex |-> Exc("ValueError", "Invalid id.")]
      [] At(query, 1) = "." ->
           IF SubSeq(query, 2, Len(query)) # ""
           THEN QueryMade(query, "classname", SubSeq(query, 2, Len(query)))
           ELSE [ok |-> FALSE, ex |-> Exc("ValueError", "Invalid class.")]
      [] isalpha(query) -> QueryMade(query, "tag", query)
      [] OTHER -> QueryMade(query, "css", query)

\* a faulty Query.as_dict: the raw query is added under "css"
Query_as_dict_both(q) ==
    PyDict(<< <<q.query_type, PyStr(q.attrs[q.query_type])>>,
              <<"css", PyStr(q.raw_query)>> >>)

\* Query.as_dict: {query_type: getattr(self, query_type)}
Query_as_dict(q) == PyDict(<< <<q.query_type, PyStr(q.attrs[q.query_type])>> >>)

(* --------------------------- function objects -------------------------- *)
(* A function object is its __name__ and, for the closure that             *)
(* plug.decorator builds, the user function it calls.                      *)

UserFn(name) == [name |-> name, closure |-> ""]

\* plug.decorator's inner "def wrapper(event): return fn(event)"
Wrapper(fn) == [name |-> "wrapper", closure |-> fn.name]

\* binascii.hexlify(hashlib.sha256(raw.encode("utf-8")).digest()).decode("ascii"):
\* SHA-256 is taken to be free of collisions on the strings of the model, and
\* the digest of raw is written sha256(raw).
Sha256Hex(raw) == "sha256(" \o raw \o ")"

get_listener_id(query, event_type, listener) ==
    Sha256Hex(query.raw_query \o event_type \o listener.name)

(* ----------------------------- ElementNode ----------------------------- *)

\* len(e) of an element of the sequence that dict() is handed
ElementLen(e) ==
    CASE e.t = "str" -> Len(e.s) [] e.t = "list" -> Len(e.a) [] OTHER -> Len(e.d)

\* an element that dict() cannot unpack to a (key, value) pair
BadElement(e) ==
    \/ e.t \in {"NoneType", "bool", "int"}
    \/ ElementLen(e) # 2
    \/ e.t = "list" /\ ~Hashable(e.a[1])

\* the (key, value) pair of an element: a str, a dict (its keys) or a list
\* whose first item is a str
ElementPair(e) ==
    CASE e.t = "str" -> <<At(e.s, 1), PyStr(At(e.s, 2))>>
      [] e.t = "dict" -> <<e.d[1][1], PyStr(e.d[2][1])>>
      [] e.t = "list" /\ e.a[1].t = "str" -> <<e.a[1].s, e.a[2]>>

RECURSIVE DictFromPairs(_, _, _)
\* dict(a) on a list: element i on, d the items so far
DictFromPairs(a, i, d) ==
    CASE i > Len(a) -> [ok |-> TRUE, d |-> d]
      [] a[i].t \in {"NoneType", "bool", "int"} ->
           [ok |-> FALSE,
            ex |-> Exc("TypeError",
                "cannot convert dictionary update sequence element #"
                    \o StrOfNat(i - 1) \o " to a sequence")]
      [] ElementLen(a[i]) # 2 ->
           [ok |-> FALSE,
            ex |-> Exc("ValueError",
                "dictionary update sequence element #" \o StrOfNat(i - 1)
                    \o " has length " \o StrOfNat(ElementLen(a[i]))
                    \o "; 2 is required")]
      [] BadElement(a[i]) ->
           [ok |-> FALSE,
            ex |-> Exc("TypeError", "unhashable type: " \o ReprStr(a[i].a[1].t))]
      [] OTHER ->
           DictFromPairs(a, i + 1,
                         DictSet(d, ElementPair(a[i])[1], ElementPair(a[i])[2]))

\* dict(x), as Attributes(x) calls it, on the pair list of the result
DictFrom(x) ==
    CASE x.t = "dict" -> [ok |-> TRUE, d |-> x.d]
      [] x.t \in {"NoneType", "bool", "int"} ->
           [ok |-> FALSE,
            ex |-> Exc("TypeError", ReprStr(x.t) \o " object is not iterable")]
      [] x.t = "str" -> DictFromPairs([i \in 1..Len(x.s) |-> PyStr(At(x.s, i))], 1, <<>>)
      [] OTHER -> DictFromPairs(x.a, 1, <<>>)

\* a faulty ElementNode.__init__: the attributes of the record are dropped
ElementNodeInitBare(kwargs, attrs) ==
    IF ~HasKey(kwargs, "tagName")
    THEN [ok |-> FALSE, ex |-> Exc("KeyError", ReprStr("tagName"))]
    ELSE [ok |-> TRUE,
          node |-> [cls |-> "ElementNode", node |-> kwargs,
                    parent |-> DictGet(kwargs, "parent", PyNone),
                    tagName |-> DictGet(kwargs, "tagName", PyNone),
                    attributes |-> <<>>]]

\* ElementNode.__init__(**kwargs) once the attributes are built: Node.__init__
\* keeps the keyword arguments as _node and reads parent; a textarea has a value
ElementNodeInit(kwargs, attrs) ==
    CASE ~HasKey(kwargs, "tagName") ->
           [ok |-> FALSE, ex |-> Exc("KeyError", ReprStr("tagName"))]
      [] ~attrs.ok -> [ok |-> FALSE, ex |-> attrs.ex]
      [] DictGet(kwargs, "tagName", PyNone) = PyStr("textarea") ->
           [ok |-> TRUE,
            node |-> [cls |-> "ElementNode", node |-> kwargs,
                      parent |-> DictGet(kwargs, "parent", PyNone),
                      tagName |-> DictGet(kwargs, "tagName", PyNone),
                      attributes |-> attrs.d,
                      value |-> DictGet(kwargs, "value", PyStr(""))]]
      [] OTHER ->
           [ok |-> TRUE,
            node |-> [cls |-> "ElementNode", node |-> kwargs,
                      parent |-> DictGet(kwargs, "parent", PyNone),
                      tagName |-> DictGet(kwargs, "tagName", PyNone),
                      attributes |-> attrs.d]]

\* ElementNode(**target): [ok |-> TRUE, node] or [ok |-> FALSE, ex]
ElementNode(target) ==
    IF target.t # "dict"
    THEN [ok |-> FALSE,
          ex |-> Exc("TypeError",
              "polyplug.ElementNode() argument after ** must be a mapping, not "
                  \o TypeName(target))]
    ELSE ElementNodeInit(target.d,
                         DictFrom(DictGet(target.d, "attributes", PyDict(<<>>))))

\* DomEvent(event_type, target)
DomEvent(event_type, target) == [event_type |-> event_type, target |-> target]

(* ------------------------------ the nodes ------------------------------ *)

\* the value of a "parent" entry: the reference to the parent node object
ParentRef == [t |-> "Node"]

\* TextNode(**kwargs): Node.__init__ keeps the keyword arguments and reads parent
TextNode(kwargs) ==
    [cls |-> "TextNode", node |-> kwargs,
     parent |-> DictGet(kwargs, "parent", PyNone),
     nodeValue |-> DictGet(kwargs, "nodeValue", PyNone)]

\* CommentNode(**kwargs)
CommentNode(kwargs) ==
    [cls |-> "CommentNode", node |-> kwargs,
     parent |-> DictGet(kwargs, "parent", PyNone),
     nodeValue |-> DictGet(kwargs, "nodeValue", PyNone)]

\* FragmentNode(**kwargs)
FragmentNode(kwargs) ==
    [cls |-> "FragmentNode", node |-> kwargs,
     parent |-> DictGet(kwargs, "parent", PyNone)]

\* a faulty body of that loop: a comment record is taken for a text
ChildNodeText(child) ==
    CASE DictGet(child, "nodeType", PyNone) = PyInt(1) -> ElementNode(PyDict(child)).node
      [] DictGet(child, "nodeType", PyNone) \in {PyInt(3), PyInt(8)} -> TextNode(child)
      [] OTHER -> FragmentNode(child)

\* the body of the loop of ElementNode.childNodes, after child["parent"] = self:
\* the node class is chosen by the record's nodeType
ChildNode(child) ==
    CASE DictGet(child, "nodeType", PyNone) = PyInt(1) -> ElementNode(PyDict(child)).node
      [] DictGet(child, "nodeType", PyNone) = PyInt(3) -> TextNode(child)
      [] DictGet(child, "nodeType", PyNone) = PyInt(8) -> CommentNode(child)
      [] OTHER -> FragmentNode(child)

\* self._node.get("childNodes", [])
Children(self) == DictGet(self.node, "childNodes", PyList(<<>>)).a

\* a faulty ElementNode.childNodes: the records a textarea holds are read too
childNodesOfAny(self) ==
    [i \in 1..Len(Children(self)) |->
        ChildNode(DictSet(Children(self)[i].d, "parent", ParentRef))]

\* ElementNode.childNodes: a textarea has none; else one node per child record
childNodes(self) ==
    IF self.tagName = PyStr("textarea") THEN <<>>
    ELSE [i \in 1..Len(Children(self)) |->
             ChildNode(DictSet(Children(self)[i].d, "parent", ParentRef))]

\* TextNode.as_dict
TextNode_as_dict(self) ==
    PyDict(<< <<"nodeType", PyInt(3)>>, <<"nodeName", PyStr("#text")>>,
              <<"nodeValue", self.nodeValue>>, <<"childNodes", PyList(<<>>)>> >>)

\* CommentNode.as_dict
CommentNode_as_dict(self) ==
    PyDict(<< <<"nodeType", PyInt(8)>>, <<"nodeName", PyStr("#comment")>>,
              <<"nodeValue", self.nodeValue>>, <<"childNodes", PyList(<<>>)>> >>)

\* FragmentNode.as_dict
FragmentNode_as_dict(self) ==
    PyDict(<< <<"nodeType", PyInt(11)>>, <<"childNodes", PyList(<<>>)>> >>)

\* ElementNode.as_dict once the children's records are built: attributes are
\* added when there are any, value when the element is a textarea
ElementNode_as_dict(self, records) ==
    PyDict(<< <<"nodeType", PyInt(1)>>, <<"tagName", self.tagName>>,
              <<"childNodes", PyList(records)>> >>
           \o (IF self.attributes # <<>>
               THEN << <<"attributes", PyDict(self.attributes)>> >> ELSE <<>>)
           \o (IF self.tagName = PyStr("textarea")
               THEN << <<"value", self.value>> >> ELSE <<>>))

RECURSIVE as_dict(_)
\* node.as_dict, by the class of the node
as_dict(self) ==
    CASE self.cls = "TextNode" -> TextNode_as_dict(self)
      [] self.cls = "CommentNode" -> CommentNode_as_dict(self)
      [] self.cls = "FragmentNode" -> FragmentNode_as_dict(self)
      [] OTHER ->
           ElementNode_as_dict(self,
               [i \in 1..Len(childNodes(self)) |-> as_dict(childNodes(self)[i])])

\* element.as_dict["childNodes"]: the records of the children of an element
ChildRecords(element) == DictGet(as_dict(element).d, "childNodes", PyNone).a

\* node_dict of add_child: the record of child when it is a Node, child
\* itself when it is a record already
NodeDict(child) == IF "cls" \in DOMAIN child THEN as_dict(child).d ELSE child.d

\* a faulty add_child: the child is put before the others
add_child_first(self, child) ==
    [self EXCEPT !.node =
        DictSet(self.node, "childNodes",
                PyList(<<PyDict(DictSet(NodeDict(child), "parent", ParentRef))>>
                           \o Children(self)))]

\* ElementNode.add_child(child): the record of child, with the parent
\* reference set, is appended to the element's childNodes
add_child(self, child) ==
    [self EXCEPT !.node =
        DictSet(self.node, "childNodes",
                PyList(Append(Children(self),
                              PyDict(DictSet(NodeDict(child), "parent", ParentRef)))))]

\* the element once its childNodes were read: child["parent"] = self has
\* been done on each record the element holds
Touched(self) ==
    IF self.tagName = PyStr("textarea") \/ ~HasKey(self.node, "childNodes") THEN self
    ELSE [self EXCEPT !.node =
             DictSet(self.node, "childNodes",
                     PyList([i \in 1..Len(Children(self)) |->
                                PyDict(DictSet(Children(self)[i].d, "parent",
                                               ParentRef))]))]

RECURSIVE AttributesHTML(_, _)
\* the loop over self.attributes.items() of ElementNode.outerHTML, from item i
AttributesHTML(attributes, i) ==
    IF i > Len(attributes) THEN ""
    ELSE " " \o attributes[i][1] \o "=\"" \o attributes[i][2].s \o "\""
             \o AttributesHTML(attributes, i + 1)

RECURSIVE outerHTML(_)
RECURSIVE NodesHTML(_, _)
\* the loop of the innerHTML getter over the child nodes, from node i
NodesHTML(nodes, i) ==
    IF i > Len(nodes) THEN "" ELSE outerHTML(nodes[i]) \o NodesHTML(nodes, i + 1)

\* ElementNode.innerHTML, read
innerHTML(self) == NodesHTML(childNodes(self), 1)

\* node.outerHTML, by the class of the node
outerHTML(self) ==
    CASE self.cls = "TextNode" -> self.nodeValue.s
      [] self.cls = "CommentNode" -> "<!--" \o self.nodeValue.s \o "-->"
      [] self.cls = "FragmentNode" -> ""
      [] OTHER ->
           "<" \o self.tagName.s \o AttributesHTML(self.attributes, 1) \o ">"
               \o (IF self.tagName = PyStr("textarea") THEN self.value.s
                   ELSE innerHTML(self))
               \o "</" \o self.tagName.s \o ">"

(* ---------------------------- ElementNode.find ------------------------ *)

\* str.lower on one character
LowerChar(c) ==
    IF \E i \in 1..26 : At("ABCDEFGHIJKLMNOPQRSTUVWXYZ", i) = c
    THEN At("abcdefghijklmnopqrstuvwxyz",
            CHOOSE i \in 1..26 : At("ABCDEFGHIJKLMNOPQRSTUVWXYZ", i) = c)
    ELSE c

RECURSIVE lower(_)
\* str.lower
lower(s) ==
    IF s = "" THEN "" ELSE LowerChar(At(s, 1)) \o lower(SubSeq(s, 2, Len(s)))

RECURSIVE Classes(_, _, _)
\* [class_name for class_name in class_attr.split(" ") if class_name], read
\* from character i on with the name cur begun
Classes(class_attr, i, cur) ==
    IF i > Len(class_attr) THEN (IF cur # "" THEN <<cur>> ELSE <<>>)
    ELSE IF At(class_attr, i) = " "
    THEN (IF cur # "" THEN <<cur>> ELSE <<>>) \o Classes(class_attr, i + 1, "")
    ELSE Classes(class_attr, i + 1, cur \o At(class_attr, i))

RECURSIVE find_by_id(_, _)
RECURSIVE IdLoop(_, _, _)
\* a faulty loop of _find_by_id: a match in a later child is preferred
IdLast(found, nodes, i, target) ==
    IF IdLoop(nodes, i + 1, target) # PyNone THEN IdLoop(nodes, i + 1, target)
    ELSE found

\* if result: return result, else the loop goes on
IdFound(found, nodes, i, target) ==
    IF found # PyNone THEN found ELSE IdLoop(nodes, i + 1, target)

\* the loop of _find_by_id over the ElementNode children, from child i;
\* return None when it ends
IdLoop(nodes, i, target) ==
    IF i > Len(nodes) THEN PyNone
    ELSE IF nodes[i].cls # "ElementNode" THEN IdLoop(nodes, i + 1, target)
    ELSE IdFound(find_by_id(nodes[i], target), nodes, i, target)

\* ElementNode._find_by_id(target)
find_by_id(self, target) ==
    IF /\ Truthy(DictGet(self.attributes, "id", PyNone))
       /\ DictGet(self.attributes, "id", PyNone) = PyStr(target)
    THEN self
    ELSE IdLoop(childNodes(self), 1, target)

\* a faulty _find_by_class: target need only begin a class name
HasClassPrefix(class_attr, target) ==
    \E i \in 1..Len(Classes(class_attr.s, 1, "")) :
        /\ Len(target) <= Len(Classes(class_attr.s, 1, "")[i])
        /\ SubSeq(Classes(class_attr.s, 1, "")[i], 1, Len(target)) = target

\* if class_attr: ... if target in classes
HasClass(class_attr, target) ==
    /\ Truthy(class_attr)
    /\ \E i \in 1..Len(Classes(class_attr.s, 1, "")) :
           Classes(class_attr.s, 1, "")[i] = target

RECURSIVE find_by_class(_, _)
RECURSIVE ClassLoop(_, _, _)
\* the loop of _find_by_class over the ElementNode children, from child i
ClassLoop(nodes, i, target) ==
    IF i > Len(nodes) THEN <<>>
    ELSE IF nodes[i].cls # "ElementNode" THEN ClassLoop(nodes, i + 1, target)
    ELSE find_by_class(nodes[i], target) \o ClassLoop(nodes, i + 1, target)

\* ElementNode._find_by_class(target)
find_by_class(self, target) ==
    (IF HasClass(DictGet(self.attributes, "class", PyStr("")), target)
     THEN <<self>> ELSE <<>>)
        \o ClassLoop(childNodes(self), 1, target)

RECURSIVE find_by_tagName(_, _)
RECURSIVE TagLoop(_, _, _)
\* a faulty loop of _find_by_tagName: the children are not searched
TagLoopNone(nodes, i, target) == <<>>

\* the loop of _find_by_tagName over the ElementNode children, from child i
TagLoop(nodes, i, target) ==
    IF i > Len(nodes) THEN <<>>
    ELSE IF nodes[i].cls # "ElementNode" THEN TagLoop(nodes, i + 1, target)
    ELSE find_by_tagName(nodes[i], target) \o TagLoop(nodes, i + 1, target)

\* ElementNode._find_by_tagName(target)
find_by_tagName(self, target) ==
    (IF self.tagName = PyStr(target) THEN <<self>> ELSE <<>>)
        \o TagLoop(childNodes(self), 1, target)

(* ------------------------------ the inputs ----------------------------- *)

\* (selector, event kind) pairs handed to plug and remove: selectors by id,
\* by tag and by css, two pairs whose concatenations coincide, and the
\* invalid selectors
PlugPoints ==
    {<<"#a", "bc">>, <<"#ab", "c">>, <<"p", "c">>, <<"p.x", "c">>,
     <<"", "c">>, <<"#", "c">>, <<".", "c">>}

\* the user's handler functions
UserFns == {UserFn("f"), UserFn("g")}

\* what remove is handed as listener: a handler plug returned, or a user's
\* own undecorated function
Listeners == {Wrapper(fn) : fn \in UserFns} \cup {UserFn("f")}

\* what a user's handler does with an event: it returns, it raises an
\* Exception, or it raises a BaseException that is no Exception (sys.exit())
HandlerOutcomes ==
    {[k |-> "return"],
     [k |-> "raise", ex |-> Exc("ValueError", "It broke!")],
     [k |-> "raise", ex |-> BaseExc("SystemExit", "")]}

\* every fingerprint plug can register from PlugPoints
Fingerprints ==
    {get_listener_id(Query(pp[1]).q, pp[2], Wrapper(fn)) :
        pp \in {x \in PlugPoints : Query(x[1]).ok}, fn \in UserFns}

\* a field of an inbound message that is left out
Absent == [t |-> "absent"]

\* the "type" field: an event kind, and the values that make a message
\* incomplete
MsgTypes == {PyStr("c"), Absent, PyStr(""), PyNone}

\* the "target" field: well-formed Element records and malformed ones
MsgTargets ==
    {Absent, PyNone, PyDict(<<>>), PyStr("x"),
     PyDict(<< <<"nodeType", PyInt(1)>> >>),
     PyDict(<< <<"tagName", PyStr("p")>>, <<"attributes", PyInt(5)>> >>),
     PyDict(<< <<"nodeType", PyInt(1)>>, <<"tagName", PyStr("p")>>,
               <<"childNodes", PyList(<<>>)>> >>),
     PyDict(<< <<"nodeType", PyInt(1)>>, <<"tagName", PyStr("div")>>,
               <<"attributes", PyDict(<< <<"id", PyStr("a")>> >>)>>,
               <<"childNodes", PyList(<<
                   PyDict(<< <<"nodeType", PyInt(3)>>, <<"nodeName", PyStr("#text")>>,
                             <<"nodeValue", PyStr("hi")>>,
                             <<"childNodes", PyList(<<>>)>> >>),
                   PyDict(<< <<"nodeType", PyInt(1)>>, <<"tagName", PyStr("textarea")>>,
                             <<"value", PyStr("<b>")>>,
                             <<"childNodes", PyList(<<>>)>> >>) >>)>> >>)}

\* the "listener" field: every fingerprint, an unknown one, and values of
\* the other JSON types
MsgListeners ==
    {PyStr(fp) : fp \in Fingerprints} \cup
    {Absent, PyNone, PyStr(""), PyStr("does_not_exist"), PyInt(0), PyInt(5),
     PyBool(TRUE), PyList(<<PyInt(5)>>), PyDict(<< <<"a", PyInt(5)>> >>)}

\* the dict of a message, a field left out where it is Absent
Message(type, target, listener) ==
    LET add(d, k, v) == IF v = Absent THEN d ELSE Append(d, <<k, v>>)
    IN  PyDict(add(add(add(<<>>, "type", type), "target", target),
                   "listener", listener))

\* the raw strings receive is handed: the messages as json.dumps writes
\* them, JSON that is not an object, and text that is not JSON
RawInputs ==
    {json_dumps(Message(PyStr("c"), ta, li)) :
        ta \in MsgTargets, li \in MsgListeners} \cup
    {json_dumps(Message(ty, ta, li)) :
        ty \in MsgTypes,
        ta \in {Absent, PyDict(<<>>), PyDict(<< <<"tagName", PyStr("p")>> >>)},
        li \in {PyStr(fp) : fp \in Fingerprints} \cup {Absent, PyStr("does_not_exist")}} \cup
    {json_dumps(Message(PyInt(5), PyDict(<< <<"tagName", PyStr("p")>> >>), li)) :
        li \in MsgListeners} \cup
    {"[]", "\"x\"", "5", "null", "true", "[{\"type\": \"c\"}]", " {\"foo\": \"bar\"} ",
     "{\"type\": \"c\", \"type\": \"\"}"} \cup
    {"not VALID", "", "{", "{\"type\": \"c\"", "{\"type\" \"c\"}", "{\"type\": \"c\",}",
     "{} {}", "[5,]", "\"abc", "{type: 1}"}

\* the wire records of the test fixture DOM_FROM_JSON: a Text, a Comment, a
\* Fragment, an Element with attributes (when it has any) and children, and
\* an Element with a value (input, textarea)
TextRecord(nodeValue) ==
    PyDict(<< <<"nodeType", PyInt(3)>>, <<"nodeName", PyStr("#text")>>,
              <<"nodeValue", PyStr(nodeValue)>>, <<"childNodes", PyList(<<>>)>> >>)

CommentRecord(nodeValue) ==
    PyDict(<< <<"nodeType", PyInt(8)>>, <<"nodeName", PyStr("#comment")>>,
              <<"nodeValue", PyStr(nodeValue)>>, <<"childNodes", PyList(<<>>)>> >>)

FragmentRecord ==
    PyDict(<< <<"nodeType", PyInt(11)>>, <<"childNodes", PyList(<<>>)>> >>)

ElementRecord(tagName, attributes, records) ==
    PyDict(<< <<"nodeType", PyInt(1)>>, <<"tagName", PyStr(tagName)>> >>
           \o (IF attributes # <<>>
               THEN << <<"attributes", PyDict(attributes)>> >> ELSE <<>>)
           \o << <<"childNodes", PyList(records)>> >>)

ValueRecord(tagName, attributes, value) ==
    PyDict(<< <<"nodeType", PyInt(1)>>, <<"tagName", PyStr(tagName)>> >>
           \o (IF attributes # <<>>
               THEN << <<"attributes", PyDict(attributes)>> >> ELSE <<>>)
           \o << <<"value", PyStr(value)>>, <<"childNodes", PyList(<<>>)>> >>)

\* wire records as the browser sends them, of the fields of DOM_FROM_JSON
WireRecords ==
    {ElementRecord("div",
         << <<"id", PyStr("test-node")>>, <<"custom-attribute", PyStr("")>> >>,
         <<ElementRecord("p", <<>>, <<TextRecord("Textual content.")>>),
           CommentRecord(" A comment "),
           ValueRecord("textarea", <<>>, "Some free text content..."),
           ElementRecord("ul", << <<"id", PyStr("list")>> >>,
               <<FragmentRecord, ElementRecord("li", <<>>, <<TextRecord("a")>>)>>)>>),
     ElementRecord("form", <<>>,
         <<ValueRecord("input", << <<"type", PyStr("text")>> >>, "test")>>)}

\* the selectors update is handed: those of PlugPoints, a class, tags in
\* upper and mixed case, and css selectors (with a blank, a digit, an inner
\* "#" or ".")
Selectors ==
    {pp[1] : pp \in PlugPoints} \cup
    {".x", ".x y", "P", "pQ", "a b", " ", "p1", "#.", ".#", "##a", "a#b", "p "}

\* the nodes update is handed: an element built by the application, and the
\* element of an inbound record with children
UpdateTargets ==
    {ElementNode(PyDict(<< <<"tagName", PyStr("p")>> >>)).node,
     ElementNode(PyDict(<< <<"nodeType", PyInt(1)>>, <<"tagName", PyStr("div")>>,
               <<"attributes", PyDict(<< <<"id", PyStr("a")>> >>)>>,
               <<"childNodes", PyList(<<
                   PyDict(<< <<"nodeType", PyInt(3)>>, <<"nodeName", PyStr("#text")>>,
                             <<"nodeValue", PyStr("hi")>>,
                             <<"childNodes", PyList(<<>>)>> >>),
                   PyDict(<< <<"nodeType", PyInt(1)>>, <<"tagName", PyStr("textarea")>>,
                             <<"value", PyStr("<b>")>>,
                             <<"childNodes", PyList(<<>>)>> >>) >>)>> >>)).node} \cup
    {ElementNode(r).node : r \in WireRecords}

\* the records of the trees find searches: the root carries the id; two
\* elements carry it, the first in pre-order below an earlier sibling; class
\* names that begin alike, in any order, with doubled blanks; text, a
\* comment and a fragment among the children; tag names in upper case; a
\* textarea whose record holds children; child records that name no parent
FindRecords ==
    {ElementRecord("div", << <<"id", PyStr("foo")>> >>,
         <<ElementRecord("p", << <<"id", PyStr("foo")>> >>, <<>>)>>),
     ElementRecord("div", <<>>,
         <<ElementRecord("ul", <<>>,
               <<ElementRecord("li", <<>>, <<TextRecord("Nope")>>),
                 ElementRecord("li", << <<"id", PyStr("foo")>>,
                                        <<"class", PyStr("x")>> >>,
                               <<TextRecord("Yup")>>)>>),
           ElementRecord("p", << <<"id", PyStr("foo")>> >>, <<>>),
           ElementRecord("li", <<>>, <<TextRecord("Yup")>>)>>),
     ElementRecord("div", << <<"class", PyStr("foo")>> >>,
         <<ElementRecord("p", << <<"class", PyStr("foobar")>> >>, <<>>),
           TextRecord("foo"),
           CommentRecord("foo"),
           FragmentRecord,
           ElementRecord("span", << <<"class", PyStr("bar foo")>> >>,
               <<ElementRecord("b", << <<"class", PyStr(" foo  baz ")>> >>, <<>>),
                 ElementRecord("P", << <<"class", PyStr("fo")>> >>, <<>>)>>),
           ElementRecord("DIV", << <<"id", PyStr("")>>, <<"class", PyStr("")>> >>, <<>>),
           ElementRecord("textarea", << <<"class", PyStr("foo")>> >>,
               <<ElementRecord("p", << <<"id", PyStr("bar")>>,
                                      <<"class", PyStr("foo")>> >>, <<>>)>>)>>),
     ElementRecord("ul", <<>>,
         <<PyDict(DictSet(ElementRecord("li", <<>>, <<TextRecord("a")>>).d,
                          "parent", PyNone)),
           PyDict(DictSet(TextRecord("b").d, "parent", PyNone))>>)}

\* the selectors find is handed: the invalid ones, ids, classes, tag names
\* in lower, upper and mixed case, and css selectors
FindSelectors ==
    {"", "#", ".", "#foo", "#bar", "#nope", ".foo", ".x", ".bar", ".baz", ".fo",
     ".nope", "div", "li", "p", "P", "DIV", "Li", "b", "textarea", "x",
     "p.x", "ul li", "li ", "h1", "p#foo", "*"}

\* the children add_child is handed: nodes of every class, and records
ChildInputs ==
    {TextNode(<< <<"nodeValue", PyStr("n")>> >>),
     CommentNode(<< <<"nodeValue", PyStr("n")>> >>),
     FragmentNode(<<>>),
     ElementNode(ElementRecord("p", << <<"id", PyStr("n")>> >>,
                               <<TextRecord("n")>>)).node,
     ElementNode(PyDict(<< <<"tagName", PyStr("textarea")>>,
                           <<"value", PyStr("n")>> >>)).node,
     TextRecord("r"),
     CommentRecord("r"),
     FragmentRecord,
     ElementRecord("p", << <<"id", PyStr("r")>> >>, <<TextRecord("r")>>),
     ValueRecord("textarea", <<>>, "r")}

\* the markup assigned to innerHTML of an element that was assigned before
AgainMarkups == {"", "x", "<p>a</p><!--c-->", "<textarea>v</textarea>"}

\* the positional arguments print is handed
PrintArgs == {<<>>, <<PyStr("a")>>, <<PyStr("a"), PyStr("b")>>, <<PyStr("a"), PyInt(5)>>}

\* the elements markup is parsed into: a div built by the application, a
\* div with an attribute and a child it already has, a div whose parent is a
\* section, and a textarea
Div == ElementNode(PyDict(<< <<"tagName", PyStr("div")>> >>)).node

Section == ElementNode(PyDict(<< <<"tagName", PyStr("section")>> >>)).node

Contexts ==
    {<<Div>>,
     <<add_child(ElementNode(PyDict(<< <<"tagName", PyStr("div")>>,
                                       <<"attributes",
                                         PyDict(<< <<"foo", PyStr("bar")>> >>)>> >>)).node,
                 TextNode(<< <<"nodeValue", PyStr("old")>> >>))>>,
     <<Section, ElementNode(PyDict(<< <<"tagName", PyStr("div")>>,
                                      <<"parent", ParentRef>> >>)).node>>,
     <<ElementNode(PyDict(<< <<"tagName", PyStr("textarea")>>,
                             <<"value", PyStr("t")>> >>)).node>>}

\* the records of trees of elements (no textarea) with attributes and of
\* text: every open tag of their markup has its close tag, properly nested
BalancedRecords ==
    {ElementRecord("div", <<>>, <<TextRecord("a")>>),
     ElementRecord("div", <<>>,
         <<ElementRecord("p", <<>>, <<TextRecord("H")>>),
           ElementRecord("p", <<>>, <<TextRecord("w")>>)>>),
     ElementRecord("div", <<>>,
         <<TextRecord("a b"),
           ElementRecord("ul", << <<"id", PyStr("l")>>, <<"class", PyStr("x y")>> >>,
               <<ElementRecord("li", <<>>, <<TextRecord("a")>>),
                 ElementRecord("li", <<>>, <<>>)>>),
           TextRecord("c ")>>),
     ElementRecord("div", <<>>,
         <<ElementRecord("div", <<>>,
               <<ElementRecord("div", <<>>, <<TextRecord("a")>>), TextRecord("b")>>)>>),
     ElementRecord("div", <<>>, <<ElementRecord("p", <<>>, <<TextRecord(" x")>>)>>)}

\* the records of trees of all four kinds of node, textareas included
TreeRecords ==
    BalancedRecords \cup
    {ElementRecord("div", <<>>,
         <<CommentRecord(" c "),
           ElementRecord("p", << <<"id", PyStr("i")>> >>, <<TextRecord("x")>>)>>),
     ElementRecord("div", <<>>, <<ValueRecord("textarea", <<>>, "a<b>")>>),
     ElementRecord("div", <<>>,
         <<ElementRecord("p", <<>>, <<TextRecord("a"), ValueRecord("textarea", <<>>, "v")>>)>>),
     ElementRecord("div", <<>>, <<ElementRecord("p", <<>>, <<CommentRecord("c")>>)>>),
     ElementRecord("div", <<>>, <<FragmentRecord, TextRecord("a")>>),
     ElementRecord("div", <<>>,
         <<ElementRecord("p", <<>>, <<ValueRecord("textarea", <<>>, "v")>>)>>)}

\* the trees: the elements of these records
Trees == {ElementNode(r).node : r \in TreeRecords}

\* the text put in a textarea: empty, blank at its ends, with "<", ">" and
\* tags in it, and with a beginning of the closing tag
TextareaValues ==
    {"", "v", " v ", "a<b>", "Test <fake html>", "</p>x", "<textarea>", "a</textare", ">"}

\* the markup handed to the tokenizer: text, elements with attributes,
\* comments, a prolog, textareas, close tags nobody opened, and input that
\* ends in whitespace, inside a tag, an attribute or a comment
Markups ==
    {"", "x", " x", "x ", " ", "<p></p>", "<p></p> ", "<p> a </p>",
     "<!-- c --><div id='i'><p>H</p><p>w</p></div>",
     "<!-- a", "<!", "<!-x-->", "<p", "<p id", "<p id=\"a",
     "<p id=\"a\" class='b c'>x</p>", "<p id=a>x</p>", "<p id=\"a/b\">x</p>",
     "</div>", "</p>", "</section>", "</div></section>", "<p></p></div>x", "<p></p><!-- c -->x",
     "<div><p>x", "<a></a><b>", "<a></a><b><c></c>", "<p> ", "<p><!--c-->",
     "<?xml version=\"1\"?><p></p>", "<?xml >",
     "<textarea>a<b></textarea>", "<textarea></textarea>", "<textarea> v </textarea>",
     "<textarea>abc", "<textarea",
     "<div><textarea>v</textarea></div>", "<div><p></p><textarea>v</textarea></div>",
     "<div>a<textarea>v</textarea></div>", "<div><textarea>v</textarea><p>q</p></div>",
     "<p><!--c--></p>", "<p>a<b>c</b>d</p>", "<div><div>a</div></div>",
     "<p>a</q>", "<p></p", "<p><b></p>", "<P>a</P><p>b</p>",
     "<p>a<!-- c -->b</p>", "<div><p></p><!--c--></div>",
     "<p id>x</p>", "<p id=\"a'>x</p>", "<p a b= 'c;d' >x</p>"} \cup
    {innerHTML(t) : t \in Trees} \cup
    {"<textarea>" \o v \o "</textarea>" : v \in TextareaValues}

(* ------------------------------ the state ------------------------------ *)

VARIABLES
    LISTENERS,  \* the registry: fingerprint -> registered wrapper
    pc,         \* "idle" between calls, "done" when a call has ended
    call,       \* the call that has ended: its name and arguments
    result,     \* how it ended: [k |-> "return", v] or [k |-> "raise", ex]
    stdout,     \* the lines it wrote with builtins.print
    invoked,    \* the handler invocations it made: wrapper, user function, event,
                \* and what the user function did
    before,     \* LISTENERS as the call found it
    removed,    \* history: fingerprints deleted by remove and not registered since
    tok         \* the HTMLTokenizer at work and the local variables of its tokenize

vars == <<LISTENERS, pc, call, result, stdout, invoked, before, removed, tok>>

NoCall == [op |-> "none"]

NoResult == [k |-> "none"]

\* no tokenizer is running
NoTok ==
    [pc |-> "idle", op |-> "none", raw |-> "", pos |-> 0, char |-> "",
     chain |-> <<>>, base |-> 0, ctx |-> PyNone, cn |-> "none", node |-> PyNone,
     ret |-> "", kind |-> "", acc |-> "", tagName |-> "", attrs |-> <<>>,
     aname |-> "", val |-> "", result |-> NoResult, found |-> <<>>]

Return(v) == [k |-> "return", v |-> v]

Raise(ex) == [k |-> "raise", ex |-> ex]

\* a faulty d[k] = v: nothing is stored
StoreNothing(d, k, v) == d

\* a faulty d[k] = v: d.setdefault(k, v), which keeps an entry that exists
StoreFirst(d, k, v) ==
    [x \in DOMAIN d \cup {k} |-> IF x \in DOMAIN d THEN d[x] ELSE v]

\* d[k] = v on the registry
Store(d, k, v) == [x \in DOMAIN d \cup {k} |-> IF x = k THEN v ELSE d[x]]

\* a faulty del d[k]: nothing is deleted
DeleteNothing(d, k) == d

\* a faulty del d[k]: d.clear()
DeleteAll(d, k) == <<>>

\* del d[k] on the registry
Delete(d, k) == [x \in DOMAIN d \ {k} |-> d[x]]

Init ==
    /\ LISTENERS = <<>>
    /\ pc = "idle"
    /\ call = NoCall
    /\ result = Return(PyNone)
    /\ stdout = <<>>
    /\ invoked = <<>>
    /\ before = <<>>
    /\ removed = {}
    /\ tok = NoTok

\* a call starts: it is recorded with the registry as it finds it
Enter(c) ==
    /\ pc = "idle"
    /\ pc' = "done"
    /\ call' = c
    /\ before' = LISTENERS
    /\ UNCHANGED tok

\* a call ends by raising ex to its caller, having changed and printed nothing
Fails(ex) ==
    /\ result' = Raise(ex)
    /\ stdout' = <<>>
    /\ invoked' = <<>>
    /\ UNCHANGED <<LISTENERS, removed>>

(* ------------------------------- plug ---------------------------------- *)

\* the registerEvent envelope that plug.decorator prints
RegisterEnvelope(q, event_type, listener_id) ==
    PyDict(<< <<"type", PyStr("registerEvent")>>,
              <<"query", Query_as_dict(q)>>,
              <<"eventType", PyStr(event_type)>>,
              <<"listener", PyStr(listener_id)>> >>)

\* a faulty decorator: the handler is stored and nothing is printed
RegisterQuiet(q, event_type, wrapper, listener_id) ==
    /\ stdout' = <<>>
    /\ LISTENERS' = Store(LISTENERS, listener_id, wrapper)
    /\ removed' = removed \ {listener_id}
    /\ invoked' = <<>>
    /\ result' = Return(wrapper)

\* plug.decorator once listener_id is computed: print, store, return wrapper
Register(q, event_type, wrapper, listener_id) ==
    /\ stdout' = <<json_dumps(RegisterEnvelope(q, event_type, listener_id))>>
    /\ LISTENERS' = Store(LISTENERS, listener_id, wrapper)
    /\ removed' = removed \ {listener_id}
    /\ invoked' = <<>>
    /\ result' = Return(wrapper)

\* plug.decorator(fn) in the closure of plug(query, event_type)
decorator(q, event_type, wrapper) ==
    Register(q, event_type, wrapper, get_listener_id(q, event_type, wrapper))

\* plug(query, event_type) once Query(query) has ended, then decorator(fn)
PlugQuery(made, event_type, fn) ==
    IF ~made.ok THEN Fails(made.ex) ELSE decorator(made.q, event_type, Wrapper(fn))

\* plug(query, event_type)(fn)
Plug(query, event_type, fn) ==
    /\ Enter([op |-> "plug", query |-> query, event_type |-> event_type, fn |-> fn])
    /\ PlugQuery(Query(query), event_type, fn)

(* ------------------------------ remove --------------------------------- *)

\* the removeEvent envelope that remove prints
RemoveEnvelope(q, event_type) ==
    PyDict(<< <<"type", PyStr("removeEvent")>>,
              <<"query", Query_as_dict(q)>>,
              <<"eventType", PyStr(event_type)>> >>)

\* a faulty remove: LISTENERS.pop(listener_id, None), so that an absent
\* fingerprint is no error
UnregisterQuiet(q, event_type, listener_id) ==
    /\ LISTENERS' = Delete(LISTENERS, listener_id)
    /\ removed' = IF listener_id \in DOMAIN LISTENERS
                  THEN removed \cup {listener_id} ELSE removed
    /\ stdout' = <<json_dumps(RemoveEnvelope(q, event_type))>>
    /\ invoked' = <<>>
    /\ result' = Return(PyNone)

\* remove once listener_id is computed: del LISTENERS[listener_id], print
Unregister(q, event_type, listener_id) ==
    IF listener_id \notin DOMAIN LISTENERS
    THEN Fails(Exc("KeyError", ReprStr(listener_id)))
    ELSE /\ LISTENERS' = Delete(LISTENERS, listener_id)
         /\ removed' = removed \cup {listener_id}
         /\ stdout' = <<json_dumps(RemoveEnvelope(q, event_type))>>
         /\ invoked' = <<>>
         /\ result' = Return(PyNone)

\* remove once Query(query) has ended
RemoveQuery(made, event_type, listener) ==
    IF ~made.ok THEN Fails(made.ex)
    ELSE Unregister(made.q, event_type,
                    get_listener_id(made.q, event_type, listener))

\* remove(query, event_type, listener)
Remove(query, event_type, listener) ==
    /\ Enter([op |-> "remove", query |-> query, event_type |-> event_type,
              listener |-> listener])
    /\ RemoveQuery(Query(query), event_type, listener)

(* ------------------------------ receive -------------------------------- *)

\* the try statement ends with ex raised and no handler invoked
Raised(ex) == [k |-> "raise", ex |-> ex, invoked |-> <<>>]

\* LISTENERS[listener](event): the wrapper calls the user function with the
\* event and hands on what it does
CallHandler(handler, event, outcome) ==
    IF outcome.k = "return"
    THEN [k |-> "return",
          invoked |-> <<[handler |-> handler, fn |-> handler.closure,
                         event |-> event, outcome |-> outcome]>>]
    ELSE [k |-> "raise", ex |-> outcome.ex,
          invoked |-> <<[handler |-> handler, fn |-> handler.closure,
                         event |-> event, outcome |-> outcome]>>]

\* event = DomEvent(event_type, ElementNode(**target)); LISTENERS[listener](event)
Invoke(handler, event_type, node, outcome) ==
    IF ~node.ok THEN Raised(node.ex)
    ELSE CallHandler(handler, DomEvent(event_type, node.node), outcome)

\* receive's "if event_type and target and listener" and what it guards
Dispatch(raw, registry, outcome, event_type, target, listener) ==
    CASE ~(Truthy(event_type) /\ Truthy(target) /\ Truthy(listener)) ->
           Raised(Exc("ValueError", "Incomplete message received: " \o raw))
      [] ~Hashable(listener) ->
           Raised(Exc("TypeError", "unhashable type: " \o ReprStr(TypeName(listener))))
      [] listener.t = "str" /\ listener.s \in DOMAIN registry ->
           Invoke(registry[listener.s], event_type, ElementNode(target), outcome)
      [] listener.t # "str" ->
           Raised(Exc("TypeError",
                      "can only concatenate str (not \"" \o TypeName(listener)
                          \o "\") to str"))
      [] OTHER -> Raised(Exc("RuntimeError", "No such listener: " \o listener.s))

\* receive after msg = json.loads(raw): the three msg.get calls
Decode(raw, registry, outcome, loaded) ==
    CASE ~loaded.ok -> Raised(loaded.ex)
      [] loaded.v.t # "dict" ->
           Raised(Exc("AttributeError",
                      ReprStr(TypeName(loaded.v)) \o " object has no attribute 'get'"))
      [] OTHER ->
           Dispatch(raw, registry, outcome,
                    DictGet(loaded.v.d, "type", PyNone),
                    DictGet(loaded.v.d, "target", PyNone),
                    DictGet(loaded.v.d, "listener", PyNone))

\* the body of receive's try statement: how it ends, and the handler
\* invocations it made
ReceiveTry(raw, registry, outcome) ==
    Decode(raw, registry, outcome, json_loads(raw))

\* "except Exception as ex": an Exception is caught, any other
\* BaseException passes through
Catches(ex) == ex.isException

\* the error envelope that receive's except clause prints
ErrorEnvelope(ex) ==
    PyDict(<< <<"type", PyStr("error")>>,
              <<"context", PyDict(<< <<"type", PyStr(ex.cls)>>,
                                     <<"msg", PyStr(ex.msg)>> >>)>> >>)

\* receive's except clause, after the try statement has ended as try
ReceiveExcept(try) ==
    /\ invoked' = try.invoked
    /\ CASE try.k = "raise" /\ Catches(try.ex) ->
              /\ stdout' = <<json_dumps(ErrorEnvelope(try.ex))>>
              /\ result' = Return(PyNone)
         [] try.k = "raise" /\ ~Catches(try.ex) ->
              /\ stdout' = <<>>
              /\ result' = Raise(try.ex)
         [] OTHER ->
              /\ stdout' = <<>>
              /\ result' = Return(PyNone)
    /\ UNCHANGED <<LISTENERS, removed>>

\* receive(raw), with what the invoked handler does
Receive(raw, outcome) ==
    /\ Enter([op |-> "receive", raw |-> raw])
    /\ ReceiveExcept(ReceiveTry(raw, LISTENERS, outcome))

(* ------------------------------- update -------------------------------- *)

\* the updateDOM envelope that update prints
UpdateEnvelope(q, target) ==
    PyDict(<< <<"type", PyStr("updateDOM")>>,
              <<"query", Query_as_dict(q)>>,
              <<"target", as_dict(target)>> >>)

\* update once Query(query) has ended: the envelope is printed
UpdateQuery(made, target) ==
    IF ~made.ok THEN Fails(made.ex)
    ELSE /\ stdout' = <<json_dumps(UpdateEnvelope(made.q, target))>>
         /\ result' = Return(PyNone)
         /\ invoked' = <<>>
         /\ UNCHANGED <<LISTENERS, removed>>

RECURSIVE TouchRecord(_)
\* a child record once the as_dict of its element was read: the childNodes
\* of each element on the way set child["parent"], in the lists the records
\* share with the nodes made from them
TouchRecord(child) ==
    IF /\ DictGet(child.d, "nodeType", PyNone) = PyInt(1)
       /\ DictGet(child.d, "tagName", PyNone) # PyStr("textarea")
       /\ HasKey(child.d, "childNodes")
    THEN PyDict(DictSet(DictSet(child.d, "parent", ParentRef), "childNodes",
             PyList([i \in 1..Len(DictGet(child.d, "childNodes", PyNone).a) |->
                        TouchRecord(DictGet(child.d, "childNodes", PyNone).a[i])])))
    ELSE PyDict(DictSet(child.d, "parent", ParentRef))

\* the element once its as_dict was read
Serialized(self) ==
    IF self.tagName = PyStr("textarea") \/ ~HasKey(self.node, "childNodes") THEN self
    ELSE [self EXCEPT !.node =
             DictSet(self.node, "childNodes",
                     PyList([i \in 1..Len(Children(self)) |->
                                TouchRecord(Children(self)[i])]))]

\* update(query, target): target is left as the reading of target.as_dict
\* leaves it, when Query(query) has not raised before
Update(query, target) ==
    /\ Enter([op |-> "update", query |-> query, target |-> target,
              after |-> IF Query(query).ok THEN Serialized(target) ELSE target])
    /\ UpdateQuery(Query(query), target)

(* ------------------------------- print --------------------------------- *)

RECURSIVE Join(_, _, _)
\* sep.join(args) from argument i on, every argument being a str
Join(sep, args, i) ==
    CASE i > Len(args) -> ""
      [] i = Len(args) -> args[i].s
      [] OTHER -> args[i].s \o sep \o Join(sep, args, i + 1)

\* the first argument str.join rejects
FirstNonStr(args) == CHOOSE i \in 1..Len(args) :
    args[i].t # "str" /\ \A j \in 1..(i - 1) : args[j].t = "str"

\* the stdout envelope that print prints
StdoutEnvelope(content) ==
    PyDict(<< <<"type", PyStr("stdout")>>, <<"content", PyStr(content)>> >>)

\* print(*args, sep=sep, end=end)
print(args, sep, end) ==
    /\ Enter([op |-> "print", args |-> args, sep |-> sep, end |-> end])
    /\ IF \E i \in 1..Len(args) : args[i].t # "str"
       THEN Fails(Exc("TypeError",
                "sequence item " \o StrOfNat(FirstNonStr(args) - 1)
                    \o ": expected str instance, "
                    \o TypeName(args[FirstNonStr(args)]) \o " found"))
       ELSE /\ stdout' = <<json_dumps(StdoutEnvelope(Join(sep, args, 1) \o end))>>
            /\ result' = Return(PyNone)
            /\ invoked' = <<>>
            /\ UNCHANGED <<LISTENERS, removed>>

(* ---------------------------- HTMLTokenizer ----------------------------- *)
(* The tokenizer is run step by step: one step per turn of tokenize's main *)
(* loop, and one per turn of the "while True" loops of get_name, of        *)
(* get_value and of the comment branch.  tok.chain is current_parent and   *)
(* its ancestors, the outermost first; the parent of an element on it is   *)
(* the element before it.  tok.cn says what current_node is: "none", "new" *)
(* (the element tok.node, not on the chain), or "top" (the very object     *)
(* that is current_parent).                                                *)

\* str.isspace() and str.isdigit() of one character or of ""
isspace(c) == c \in Whitespace

isdigit(c) == c \in Digits

\* "c in expected" on strs: the empty str is in every str
In(c, expected) == c = "" \/ \E i \in 1..Len(expected) : At(expected, i) = c

\* HTMLTokenizer.next_char with self.pos = pos: the cursor it leaves
next_char(raw, pos) ==
    IF Len(raw) # 0 /\ pos < Len(raw)
    THEN [pos |-> pos + 1, char |-> At(raw, pos + 1)]
    ELSE [pos |-> pos, char |-> ""]

RECURSIVE skip_ws(_, _)
\* HTMLTokenizer.skip_ws
skip_ws(raw, cur) ==
    IF isspace(cur.char) THEN skip_ws(raw, next_char(raw, cur.pos)) ELSE cur

\* HTMLTokenizer.match after its skip_ws
Matched(raw, cur, expected) ==
    IF In(cur.char, expected)
    THEN [ok |-> TRUE, cur |-> next_char(raw, cur.pos)]
    ELSE [ok |-> FALSE, cur |-> cur]

\* HTMLTokenizer.match(expected)
match(raw, cur, expected) == Matched(raw, skip_ws(raw, cur), expected)

RECURSIVE expect(_, _, _)
RECURSIVE ExpectNext(_, _, _)
\* HTMLTokenizer.expect, called for each str of expected in turn: ok is
\* FALSE where a call raises ValueError("Bad HTML syntax.")
expect(raw, cur, expected) ==
    IF expected = <<>> THEN [ok |-> TRUE, cur |-> cur]
    ELSE ExpectNext(raw, match(raw, cur, Head(expected)), Tail(expected))

ExpectNext(raw, m, rest) == IF m.ok THEN expect(raw, m.cur, rest) ELSE m

BadSyntax == Exc("ValueError", "Bad HTML syntax.")

\* result[-n:]
Suffix(s, n) == IF Len(s) > n THEN SubSeq(s, Len(s) - n + 1, Len(s)) ELSE s

\* HTMLTokenizer.get_text once its loop has ended
TextRead(raw, cur, until, text) ==
    IF Suffix(text, Len(until)) = until
    THEN [text |-> SubSeq(text, 1, Len(text) - Len(until)),
          cur |-> next_char(raw, cur.pos - Len(until)
                                    - (IF cur.char # "" THEN 1 ELSE 0))]
    ELSE [text |-> text, cur |-> cur]

RECURSIVE get_text_to_tag(_, _, _, _)
\* a faulty get_text: the text ends at the first "<", whatever until is
get_text_to_tag(raw, cur, until, text) ==
    IF cur.char # "" /\ cur.char # "<"
    THEN get_text_to_tag(raw, next_char(raw, cur.pos), until, text \o cur.char)
    ELSE [text |-> text, cur |-> cur]

RECURSIVE get_text(_, _, _, _)
\* HTMLTokenizer.get_text(until), with the text read so far
get_text(raw, cur, until, text) ==
    IF Suffix(text, Len(until)) # until /\ cur.char # ""
    THEN get_text(raw, next_char(raw, cur.pos), until, text \o cur.char)
    ELSE TextRead(raw, cur, until, text)

Cur(t) == [pos |-> t.pos, char |-> t.char]

SetCur(t, cur) == [t EXCEPT !.pos = cur.pos, !.char = cur.char]

\* the call ends: it returns or raises
Done(t, res) == [t EXCEPT !.pc = "done", !.result = res]

\* current_parent
Top(t) == t.chain[Len(t.chain)]

\* current_node, when it is not None
CurrentNode(t) == IF t.cn = "new" THEN t.node ELSE Top(t)

\* current_parent.add_child(child)
AddToParent(t, child) ==
    [t EXCEPT !.chain[Len(t.chain)] = add_child(@, child)]

\* current_node.add_child(child)
AddToNode(t, child) ==
    IF t.cn = "new" THEN [t EXCEPT !.node = add_child(@, child)]
    ELSE AddToParent(t, child)

\* self.expect(">") at the end of a turn of the main loop
ExpectClose(t, m) ==
    IF m.ok THEN [SetCur(t, m.cur) EXCEPT !.pc = "main"]
    ELSE Done(t, Raise(BadSyntax))

\* get_name() is called: skip_ws, result = "", then its loop; ret tells what
\* the name is read for
StartName(t, ret) ==
    [SetCur(t, skip_ws(t.raw, Cur(t))) EXCEPT !.pc = "name", !.ret = ret, !.acc = ""]

\* get_attrs() is called: attrs = Attributes(), name = self.get_name()
StartAttrs(t, kind) == StartName([t EXCEPT !.kind = kind, !.attrs = <<>>], "attr")

\* the element tokenize builds for the open tag it has read
NewElement(t) ==
    ElementNode(PyDict(<< <<"tagName", PyStr(t.tagName)>>,
                          <<"attributes", PyDict(t.attrs)>>,
                          <<"parent", ParentRef>> >>)).node

\* the textarea element tokenize builds
NewTextarea(t, value) ==
    ElementNode(PyDict(<< <<"tagName", PyStr(t.tagName)>>,
                          <<"attributes", PyDict(t.attrs)>>,
                          <<"value", PyStr(value)>>,
                          <<"parent", ParentRef>> >>)).node

\* the textarea branch after the closing tag has been expected
TextareaAdd(t, value, m) ==
    IF ~m.ok THEN Done(t, Raise(BadSyntax))
    ELSE [AddToParent(SetCur(t, m.cur), NewTextarea(t, value)) EXCEPT !.pc = "main"]

\* the textarea branch after get_text(until="</textarea>")
TextareaClose(t, got) ==
    TextareaAdd(t, got.text,
                expect(t.raw, got.cur,
                       <<"<", "/", "t", "e", "x", "t", "a", "r", "e", "a", ">">>))

\* the textarea branch after self.expect(">")
TextareaText(t, m) ==
    IF ~m.ok THEN Done(t, Raise(BadSyntax))
    ELSE TextareaClose(t, get_text(t.raw, m.cur, "</textarea>", ""))

\* "if current_node: current_parent = current_node"
Descend(t) ==
    IF t.cn = "new"
    THEN [t EXCEPT !.chain = Append(@, t.node), !.cn = "top", !.node = PyNone]
    ELSE t

\* the ElementNode branch after "if current_node: current_parent = current_node"
OpenElement(t) ==
    IF t.tagName = "textarea"
    THEN TextareaText(t, match(t.raw, Cur(t), ">"))
    ELSE ExpectClose([t EXCEPT !.cn = "new", !.node = NewElement(t)],
                     match(t.raw, Cur(t), ">"))

\* the prolog branch after get_attrs(): expect("?"), expect(">")
PrologClose(t) == ExpectClose(t, expect(t.raw, Cur(t), <<"?", ">">>))

\* get_attrs returns to the branch that called it
AttrsReturn(t) ==
    IF t.kind = "prolog" THEN PrologClose(t) ELSE OpenElement(Descend(t))

\* attrs[name] = value; name = self.get_name()
SetAttr(t, value) ==
    StartName([t EXCEPT !.attrs = DictSet(@, t.aname, PyStr(value))], "attr")

\* get_value(): skip_ws, expect("="), expect(QUOTES); a ValueError makes it
\* return "", else its loop starts
StartValue(t, m) ==
    IF m.ok THEN [SetCur(t, m.cur) EXCEPT !.pc = "value", !.val = ""]
    ELSE SetAttr(SetCur(t, m.cur), "")

\* the step back up the tree of the close-tag branch
StepUp(t) ==
    IF Len(t.chain) = 1
    THEN Done(t, Raise(Exc("AttributeError",
                           "'NoneType' object has no attribute 'add_child'")))
    ELSE ExpectClose(
            [t EXCEPT !.chain = [SubSeq(@, 1, Len(@) - 1) EXCEPT
                                    ![Len(t.chain) - 1] = add_child(@, Top(t))],
                      !.ctx = IF Len(t.chain) = t.base THEN Top(t) ELSE @,
                      !.cn = "none", !.node = PyNone],
            match(t.raw, Cur(t), ">"))

\* the close-tag branch once name = self.get_name() is read
CloseTag(t) ==
    IF t.cn # "none" /\ PyStr(t.acc) = CurrentNode(t).tagName
    THEN ExpectClose([AddToParent(t, CurrentNode(t)) EXCEPT
                          !.cn = "none", !.node = PyNone],
                     match(t.raw, Cur(t), ">"))
    ELSE IF PyStr(t.acc) = Top(t).tagName
    THEN StepUp(t)
    ELSE Done(t, Raise(Exc("ValueError",
                  "('Unexpected close tag.', " \o ReprStr(t.acc) \o ")")))

\* get_name returns its result to the branch that called it
NameReturn(t) ==
    CASE t.ret = "close" -> CloseTag(t)
      [] t.ret = "tag" -> StartAttrs([t EXCEPT !.tagName = t.acc], "tag")
      [] OTHER ->
           IF t.acc = "" THEN AttrsReturn(t)
           ELSE StartValue([t EXCEPT !.aname = t.acc],
                           expect(t.raw, skip_ws(t.raw, Cur(t)), <<"=", "\"'">>))

\* one turn of the loop of get_name
NameStep(t) ==
    IF isalpha(t.char) \/ isdigit(t.char) \/ In(t.char, "_-.")
    THEN [SetCur(t, next_char(t.raw, t.pos)) EXCEPT !.acc = @ \o t.char]
    ELSE NameReturn(t)

\* get_value after its loop: expect(QUOTES), and "" if that raises
ValueReturn(t, m) == SetAttr(SetCur(t, m.cur), IF m.ok THEN t.val ELSE "")

\* one turn of the loop of get_value
ValueStep(t) ==
    IF isalpha(t.char) \/ isdigit(t.char) \/ In(t.char, "_-. ;:!")
    THEN [SetCur(t, next_char(t.raw, t.pos)) EXCEPT !.val = @ \o t.char]
    ELSE ValueReturn(t, match(t.raw, Cur(t), "\"'"))

\* the comment branch once value ends with "-->"
AddComment(t) ==
    [AddToParent(t, CommentNode(<< <<"nodeValue",
                     PyStr(SubSeq(t.val, 1, Len(t.val) - 3))>> >>))
        EXCEPT !.pc = "main"]

\* one turn of the loop of the comment branch, value + get_char() given
CommentRead(t) == IF Suffix(t.val, 3) = "-->" THEN AddComment(t) ELSE t

CommentStep(t) ==
    CommentRead([SetCur(t, next_char(t.raw, t.pos)) EXCEPT !.val = @ \o t.char])

\* the comment branch after expect("-"), expect("-")
StartComment(t, m) ==
    IF m.ok THEN [SetCur(t, m.cur) EXCEPT !.pc = "comment", !.val = ""]
    ELSE Done(t, Raise(BadSyntax))

\* the TextNode branch after value = self.get_text()
AddText(t, got) ==
    IF t.cn # "none"
    THEN AddToNode(SetCur(t, got.cur), TextNode(<< <<"nodeValue", PyStr(got.text)>> >>))
    ELSE AddToParent(SetCur(t, got.cur), TextNode(<< <<"nodeValue", PyStr(got.text)>> >>))

\* the TextNode branch
TextRun(t) == AddText(t, get_text(t.raw, Cur(t), "<", ""))

\* after "<": match("!") decides between a comment and an element
TagBang(t, m) ==
    IF m.ok THEN StartComment(t, expect(t.raw, m.cur, <<"-", "-">>))
    ELSE StartName(SetCur(t, m.cur), "tag")

\* after "<": match("?") decides for the prolog
TagProlog(t, m) ==
    IF m.ok THEN StartAttrs(SetCur(t, m.cur), "prolog")
    ELSE TagBang(t, match(t.raw, m.cur, "!"))

\* after "<": match("/") decides for a close tag
TagSlash(t, m) ==
    IF m.ok THEN StartName(SetCur(t, m.cur), "close")
    ELSE TagProlog(t, match(t.raw, m.cur, "?"))

\* a turn of the main loop after self.match("<")
MainMatched(t, m) ==
    IF m.ok THEN TagSlash(t, match(t.raw, m.cur, "/")) ELSE TextRun(SetCur(t, m.cur))

\* "while self.char:" and the start of a turn of the main loop
MainStep(t) ==
    IF t.char = "" THEN Done(t, Return(PyNone))
    ELSE MainMatched(t, match(t.raw, Cur(t), "<"))

\* HTMLTokenizer(raw).tokenize(parent), up to the main loop: chain is parent
\* with its ancestors, or empty when parent is no ElementNode; found keeps
\* the records of the children parent has when the loop starts
StartTok(op, raw, chain) ==
    IF chain = <<>>
    THEN Done([NoTok EXCEPT !.op = op, !.raw = raw],
              Raise(Exc("ValueError", "Parent must be an ElementNode")))
    ELSE [NoTok EXCEPT !.pc = "main", !.op = op, !.raw = raw,
                       !.pos = next_char(raw, 0).pos,
                       !.char = next_char(raw, 0).char,
                       !.chain = chain, !.base = Len(chain),
                       !.found = ChildRecords(chain[Len(chain)])]

\* a faulty innerHTML setter: the children are kept
Kept(chain) == chain

\* self._node["childNodes"] = [] of the innerHTML setter, on the last of chain
Cleared(chain) ==
    [chain EXCEPT ![Len(chain)].node = DictSet(@, "childNodes", PyList(<<>>))]

\* the state of the registry and of the last call is not touched
Untouched == UNCHANGED <<LISTENERS, pc, call, result, stdout, invoked, before, removed>>

\* HTMLTokenizer(raw).tokenize(parent) is called
Tokenize(raw, chain) ==
    /\ pc = "idle"
    /\ tok.pc = "idle"
    /\ tok' = StartTok("tokenize", raw, chain)
    /\ Untouched

\* element.innerHTML = raw
SetInnerHTML(raw, chain) ==
    /\ pc = "idle"
    /\ tok.pc = "idle"
    /\ tok' = StartTok("innerHTML", raw, Cleared(chain))
    /\ Untouched

\* a turn of the main loop of tokenize
TokMain == tok.pc = "main" /\ tok' = MainStep(tok) /\ Untouched

\* a turn of the loop of get_name
TokName == tok.pc = "name" /\ tok' = NameStep(tok) /\ Untouched

\* a turn of the loop of get_value
TokValue == tok.pc = "value" /\ tok' = ValueStep(tok) /\ Untouched

\* a turn of the loop of the comment branch
TokComment == tok.pc = "comment" /\ tok' = CommentStep(tok) /\ Untouched

(* ------------------------ calls on an element -------------------------- *)

\* a faulty find: every selector is taken for a tag name
find_lenient(self, selector) == Return(PyList(find_by_tagName(self, lower(selector))))

\* ElementNode.find(selector): what it returns or raises
find(self, selector) ==
    IF selector = "" THEN Raise(Exc("ValueError", "Missing selector."))
    ELSE IF At(selector, 1) = "#"
    THEN (IF SubSeq(selector, 2, Len(selector)) # ""
          THEN Return(find_by_id(self, SubSeq(selector, 2, Len(selector))))
          ELSE Raise(Exc("ValueError", "Invalid id.")))
    ELSE IF At(selector, 1) = "."
    THEN (IF SubSeq(selector, 2, Len(selector)) # ""
          THEN Return(PyList(find_by_class(self, SubSeq(selector, 2, Len(selector)))))
          ELSE Raise(Exc("ValueError", "Invalid class.")))
    ELSE IF isalpha(selector)
    THEN Return(PyList(find_by_tagName(self, lower(selector))))
    ELSE Raise(Exc("ValueError", "Invalid tag name."))

\* the element the tokenizer was handed as parent, as the run left it
Subject(t) == IF t.ctx # PyNone THEN t.ctx ELSE t.chain[t.base]

\* the elements a call is made on: one built from a record, or, once the
\* tokenizer has ended, the element it has filled
Subjects ==
    IF tok.pc = "idle" THEN {ElementNode(r).node : r \in FindRecords}
    ELSE IF tok.pc = "done" /\ tok.chain # <<>> THEN {Subject(tok)}
    ELSE {}

\* a call on an element ends: the call and what it gave are recorded
Called(c, r) ==
    /\ pc = "idle"
    /\ pc' = "done"
    /\ call' = c
    /\ result' = r
    /\ UNCHANGED <<LISTENERS, stdout, invoked, before, removed, tok>>

\* element.innerHTML = raw on the element an earlier element.innerHTML = ...
\* has filled: the tokenizer starts again on it, its ancestors as they were
SetInnerHTMLAgain(raw) ==
    /\ pc = "idle"
    /\ tok.pc = "done" /\ tok.op = "innerHTML"
    /\ pc' = "done"
    /\ call' = [op |-> "innerHTML", self |-> Subject(tok), raw |-> tok.raw]
    /\ tok' = StartTok("innerHTML", raw,
                       Cleared(Append(SubSeq(tok.chain, 1, tok.base - 1), Subject(tok))))
    /\ UNCHANGED <<LISTENERS, result, stdout, invoked, before, removed>>

\* self.childNodes is read: the records self holds have their parent set
ReadChildNodes(self) ==
    Called([op |-> "childNodes", self |-> self, after |-> Touched(self)],
           Return(PyList(childNodes(self))))

\* self.add_child(child)
AddChild(self, child) ==
    Called([op |-> "add_child", self |-> self, child |-> child,
            after |-> add_child(self, child)],
           Return(PyNone))

\* self.find(selector)
Find(self, selector) ==
    Called([op |-> "find", self |-> self, selector |-> selector],
           find(self, selector))

(* ------------------------------ Attributes ----------------------------- *)

\* the names attribute lookup finds on a dict itself, so that __getattr__ is
\* not asked for them
DictMethods ==
    {"clear", "copy", "fromkeys", "get", "items", "keys", "pop", "popitem",
     "setdefault", "update", "values"}

\* Attributes.__getattr__(key)
Attributes_getattr(self, key) ==
    IF HasKey(self, key) THEN Return(DictGet(self, key, PyNone))
    ELSE Raise(Exc("AttributeError", "No such attribute: " \o key))

\* the expression self.key: the method of dict of that name when there is
\* one, else what __getattr__ gives
GetAttr(self, key) ==
    IF key \in DictMethods
    THEN Return([t |-> "builtin_function_or_method", name |-> key])
    ELSE Attributes_getattr(self, key)

\* Attributes.__setattr__(key, value): self[key] = value
Attributes_setattr(self, key, value) == DictSet(self, key, value)

\* Attributes.__delattr__(key): the map it leaves
Attributes_delattr(self, key) ==
    IF HasKey(self, key) THEN SelectSeq(self, LAMBDA kv : kv[1] # key) ELSE self

\* the field names used, one of them the name of a method of dict
AttrKeys == {"foo", "id", "values"}

\* the values set, the empty string among them
AttrValues == {PyStr(""), PyStr("bar")}

\* the Attributes map the next statement works on: Attributes({}) or
\* Attributes({"foo": "bar"}) at first, then as the last statement left it
AttrMaps ==
    IF pc = "idle" THEN {<<>>, << <<"foo", PyStr("bar")>> >>} ELSE {call.after}

\* the statement before: none at first
AttrPrev ==
    IF pc = "idle" THEN [op |-> "none", key |-> "", value |-> PyNone, k |-> "none"]
    ELSE [op |-> call.op, key |-> call.key, value |-> call.value, k |-> result.k]

\* a statement on the Attributes map ends
AttrCalled(c, r) ==
    /\ pc = "idle" \/ call.op \in {"getattr", "setattr", "delattr"}
    /\ pc' = "done"
    /\ call' = c
    /\ result' = r
    /\ UNCHANGED <<LISTENERS, stdout, invoked, before, removed, tok>>

\* a.key is read
AttrGet(self, key) ==
    AttrCalled([op |-> "getattr", key |-> key, value |-> PyNone, self |-> self,
                after |-> self, prev |-> AttrPrev],
               GetAttr(self, key))

\* a.key = value
AttrSet(self, key, value) ==
    AttrCalled([op |-> "setattr", key |-> key, value |-> value, self |-> self,
                after |-> Attributes_setattr(self, key, value), prev |-> AttrPrev],
               Return(PyNone))

\* del a.key
AttrDel(self, key) ==
    AttrCalled([op |-> "delattr", key |-> key, value |-> PyNone, self |-> self,
                after |-> Attributes_delattr(self, key), prev |-> AttrPrev],
               IF HasKey(self, key) THEN Return(PyNone)
               ELSE Raise(Exc("AttributeError", "No such attribute: " \o key)))

(* --------------------------- the caller goes on ------------------------ *)

\* the call's frame is gone: only the registry and its history remain
Continue ==
    /\ pc = "done"
    /\ pc' = "idle"
    /\ call' = NoCall
    /\ result' = Return(PyNone)
    /\ stdout' = <<>>
    /\ invoked' = <<>>
    /\ before' = LISTENERS
    /\ UNCHANGED <<LISTENERS, removed, tok>>

Next ==
    \/ \E pp \in PlugPoints, fn \in UserFns : Plug(pp[1], pp[2], fn)
    \/ \E pp \in PlugPoints, listener \in Listeners : Remove(pp[1], pp[2], listener)
    \/ \E raw \in RawInputs, outcome \in HandlerOutcomes : Receive(raw, outcome)
    \/ \E query \in Selectors, target \in UpdateTargets : Update(query, target)
    \/ \E args \in PrintArgs, sep \in {" ", ""} : print(args, sep, "\n")
    \/ Continue

Spec == Init /\ [][Next]_vars

\* the tokenizer: HTMLTokenizer(raw).tokenize(parent), element.innerHTML = raw,
\* and the turns of their loops
NextTok ==
    \/ \E raw \in Markups, chain \in Contexts \cup {<<>>} : Tokenize(raw, chain)
    \/ \E raw \in Markups, chain \in Contexts : SetInnerHTML(raw, chain)
    \/ TokMain
    \/ TokName
    \/ TokValue
    \/ TokComment
    \/ \E self \in Subjects, selector \in FindSelectors : Find(self, selector)
    \/ \E raw \in AgainMarkups : SetInnerHTMLAgain(raw)
    \/ \E self \in Subjects : ReadChildNodes(self)
    \/ \E self \in Subjects, child \in ChildInputs : AddChild(self, child)

SpecTok == Init /\ [][NextTok]_vars

\* field-style statements on an Attributes map, one after the other
NextAttr ==
    \/ \E self \in AttrMaps, key \in AttrKeys : AttrGet(self, key)
    \/ \E self \in AttrMaps, key \in AttrKeys, value \in AttrValues :
           AttrSet(self, key, value)
    \/ \E self \in AttrMaps, key \in AttrKeys : AttrDel(self, key)

SpecAttr == Init /\ [][NextAttr]_vars

(* ======================================================================= *)
(* The properties.  They are read off the state in which a call has ended  *)
(* (pc = "done"): call, before, result, stdout and invoked are its         *)
(* arguments, the registry it found, how it ended, what it printed and     *)
(* the handlers it invoked.                                                *)
(* ======================================================================= *)

PlugDone == pc = "done" /\ call.op = "plug"

RemoveDone == pc = "done" /\ call.op = "remove"

ReceiveDone == pc = "done" /\ call.op = "receive"

\* the inbound text of the receive that ended, decoded
Msg == json_loads(call.raw)

\* the decoded text msg is a JSON object
IsObject(msg) == msg.ok /\ msg.v.t = "dict"

\* a field of the object msg, None when it is missing
Field(msg, name) == DictGet(msg.v.d, name, PyNone)

\* the object msg has truthy type, target and listener
Complete(msg) ==
    /\ IsObject(msg)
    /\ Truthy(Field(msg, "type"))
    /\ Truthy(Field(msg, "target"))
    /\ Truthy(Field(msg, "listener"))

\* the listener field of the object msg is the fingerprint fp
Carries(msg, fp) == IsObject(msg) /\ Field(msg, "listener") = PyStr(fp)

\* the listener field of the object msg is a key of the registry
Registered(msg, registry) ==
    Field(msg, "listener").t = "str" /\ Field(msg, "listener").s \in DOMAIN registry

\* the selector of the plug or remove that ended
CallQuery == Query(call.query)

\* exactly one line was printed and it is the JSON text of v
Emitted(v) == Len(stdout) = 1 /\ json_loads(stdout[1]) = [ok |-> TRUE, v |-> v]

\* the envelope {type: "error", context: {type, msg}}
ErrorOf(type, text) ==
    PyDict(<< <<"type", PyStr("error")>>,
              <<"context", PyDict(<< <<"type", PyStr(type)>>,
                                     <<"msg", PyStr(text)>> >>)>> >>)

\* the one line printed, decoded
Printed == json_loads(stdout[1])

\* exactly one line was printed and it is an error envelope
\* {type: "error", context: {type, msg}}, type and msg being strings
EmittedError ==
    /\ Len(stdout) = 1
    /\ Printed.ok
    /\ Printed.v.t = "dict"
    /\ Len(Printed.v.d) = 2
    /\ Printed.v.d[1] = <<"type", PyStr("error")>>
    /\ Printed.v.d[2][1] = "context"
    /\ Printed.v.d[2][2].t = "dict"
    /\ Len(Printed.v.d[2][2].d) = 2
    /\ Printed.v.d[2][2].d[1][1] = "type"
    /\ Printed.v.d[2][2].d[1][2].t = "str"
    /\ Printed.v.d[2][2].d[2][1] = "msg"
    /\ Printed.v.d[2][2].d[2][2].t = "str"

\* the context.type of the error envelope printed
ErrorType == Printed.v.d[2][2].d[1][2].s

\* a handler was invoked and it returned
HandlerReturned == invoked # <<>> /\ invoked[1].outcome.k = "return"

\* the registerEvent envelope for a selector, an event kind and a fingerprint
RegisterEventOf(q, event_type, listener_id) ==
    PyDict(<< <<"type", PyStr("registerEvent")>>,
              <<"query", Query_as_dict(q)>>,
              <<"eventType", PyStr(event_type)>>,
              <<"listener", PyStr(listener_id)>> >>)

\* the removeEvent envelope for a selector and an event kind: no listener
RemoveEventOf(q, event_type) ==
    PyDict(<< <<"type", PyStr("removeEvent")>>,
              <<"query", Query_as_dict(q)>>,
              <<"eventType", PyStr(event_type)>> >>)

\* the fingerprint plug computes for the handler it returned
PlugId == get_listener_id(CallQuery.q, call.event_type, result.v)

\* the fingerprint remove computes for its arguments
RemoveId == get_listener_id(CallQuery.q, call.event_type, call.listener)

\* the fingerprint of the selector and event kind of the plug that ended,
\* for the user function f
IdFor(f) == get_listener_id(CallQuery.q, call.event_type, Wrapper(f))

\* the target of the object msg is a well-formed Element record: an object
\* with a tagName whose attributes, when given, are an object
WellFormedTarget(msg) ==
    /\ Field(msg, "target").t = "dict"
    /\ HasKey(Field(msg, "target").d, "tagName")
    /\ DictGet(Field(msg, "target").d, "attributes", PyDict(<<>>)).t = "dict"

(* ------------------------------- C1 ------------------------------------ *)

\* C1: receive(raw) returns normally for every raw and every registry; it
\* prints no error envelope when a handler was invoked and returned, exactly
\* one error envelope when no handler was invoked, and for text that is not
\* JSON the envelope's context.type is JSONDecodeError.
C1_ReceiveNeverRaises ==
    ReceiveDone =>
        /\ result.k = "return"
        /\ HandlerReturned => stdout = <<>>
        /\ invoked = <<>> => EmittedError
        /\ ~Msg.ok => EmittedError /\ ErrorType = "JSONDecodeError"

(* ------------------------------- C2 ------------------------------------ *)

\* C2, as stated: a handler is invoked only by a receive whose listener
\* field is a fingerprint in LISTENERS at that moment, and every receive
\* carrying a fingerprint that remove has deleted (and plug has not
\* registered since) invokes no handler and prints the "No such listener"
\* error envelope.
C2_EveryReceiveCarryingRemoved ==
    ReceiveDone =>
        LET msg == Msg
        IN  /\ invoked # <<>> => IsObject(msg) /\ Registered(msg, before)
            /\ \A fp \in removed :
                   Carries(msg, fp) =>
                       /\ invoked = <<>>
                       /\ Emitted(ErrorOf("RuntimeError",
                                          "No such listener: " \o fp))

\* C2, amended: the same, for the receives of a message with truthy type
\* and target that carries the deleted fingerprint; a handler that is
\* invoked is the one the registry holds for the fingerprint, invoked once.
C2_Lifecycle ==
    ReceiveDone =>
        LET msg == Msg
        IN  /\ invoked # <<>> =>
                   /\ IsObject(msg) /\ Registered(msg, before)
                   /\ Len(invoked) = 1
                   /\ invoked[1].handler = before[Field(msg, "listener").s]
            /\ \A fp \in removed :
                   (/\ Carries(msg, fp)
                    /\ Truthy(Field(msg, "type"))
                    /\ Truthy(Field(msg, "target"))) =>
                       /\ fp \notin DOMAIN before
                       /\ invoked = <<>>
                       /\ result = Return(PyNone)
                       /\ Emitted(ErrorOf("RuntimeError",
                                          "No such listener: " \o fp))

\* C2's case: a complete message carrying a deleted fingerprint was received
C2_Witness ==
    /\ ReceiveDone
    /\ \E fp \in removed :
           /\ Carries(Msg, fp)
           /\ Truthy(Field(Msg, "type"))
           /\ Truthy(Field(Msg, "target"))
           /\ Emitted(ErrorOf("RuntimeError", "No such listener: " \o fp))

(* ------------------------------- C3 ------------------------------------ *)

\* C3: for a valid selector s, plug(s, e)(fn) prints exactly one
\* registerEvent envelope {type, query: Query(s).as_dict, eventType: e,
\* listener: L}, and afterwards LISTENERS[L] is the handler h it returned, a
\* callable that calls fn, with L = get_listener_id(Query(s), e, h).
C3_PlugRegisters ==
    PlugDone /\ CallQuery.ok =>
        /\ result.k = "return"
        /\ result.v.closure = call.fn.name
        /\ invoked = <<>>
        /\ Emitted(RegisterEventOf(CallQuery.q, call.event_type, PlugId))
        /\ PlugId \in DOMAIN LISTENERS
        /\ LISTENERS[PlugId] = result.v

\* C3's case: a plug with a valid selector has ended, beside another entry
C3_Witness ==
    /\ PlugDone /\ CallQuery.ok /\ result.k = "return"
    /\ Len(stdout) = 1
    /\ Cardinality(DOMAIN LISTENERS) > 1

(* ------------------------------- C4 ------------------------------------ *)

\* C4: when h was returned by plug(s, e)(fn) and its entry is still in
\* LISTENERS, remove(s, e, h) deletes exactly that entry, keeps every other
\* entry, and prints exactly one removeEvent envelope {type, query, eventType}
\* with no listener field.
C4_RemoveDeletes ==
    (/\ RemoveDone /\ CallQuery.ok
     /\ RemoveId \in DOMAIN before
     /\ before[RemoveId] = call.listener) =>
        /\ result = Return(PyNone)
        /\ DOMAIN LISTENERS = DOMAIN before \ {RemoveId}
        /\ \A k \in DOMAIN LISTENERS : LISTENERS[k] = before[k]
        /\ invoked = <<>>
        /\ Emitted(RemoveEventOf(CallQuery.q, call.event_type))

\* C4's case: a registered handler was removed and other entries remain
C4_Witness ==
    /\ RemoveDone /\ CallQuery.ok
    /\ RemoveId \in DOMAIN before
    /\ before[RemoveId] = call.listener
    /\ Len(stdout) = 1
    /\ Cardinality(DOMAIN LISTENERS) >= 2

(* ------------------------------- C5 ------------------------------------ *)

\* C5: remove(s, e, h) for a fingerprint that is not in LISTENERS raises
\* KeyError to its caller, prints nothing and leaves LISTENERS as it was; so
\* does a second remove after a successful one.
C5_RemoveAbsent ==
    RemoveDone /\ CallQuery.ok /\ RemoveId \notin DOMAIN before =>
        /\ result.k = "raise"
        /\ result.ex.cls = "KeyError"
        /\ stdout = <<>>
        /\ invoked = <<>>
        /\ LISTENERS = before

\* C5's case: a remove of a fingerprint that an earlier remove deleted, other
\* entries being registered
C5_Witness ==
    /\ RemoveDone /\ CallQuery.ok
    /\ RemoveId \in removed
    /\ result.k = "raise"
    /\ before # <<>>

(* ------------------------------- C6 ------------------------------------ *)

\* C6: the fingerprint computed again for the same tuple is the one plug
\* announced, whatever the registry holds; registering a tuple whose
\* fingerprint is registered overwrites the entry, so the number of entries
\* does not grow; and a receive invokes the handler stored last under the
\* fingerprint it carries.
C6_Overwrite ==
    /\ PlugDone /\ result.k = "return" =>
           /\ Emitted(RegisterEventOf(CallQuery.q, call.event_type, PlugId))
           /\ LISTENERS[PlugId] = result.v
           /\ PlugId \in DOMAIN before =>
                  /\ DOMAIN LISTENERS = DOMAIN before
                  /\ Cardinality(DOMAIN LISTENERS) = Cardinality(DOMAIN before)
           /\ \A k \in DOMAIN before \ {PlugId} :
                  k \in DOMAIN LISTENERS /\ LISTENERS[k] = before[k]
    /\ ReceiveDone /\ invoked # <<>> =>
           /\ Len(invoked) = 1
           /\ invoked[1].handler = LISTENERS[Field(Msg, "listener").s]

\* C6's case: the tuple (p, c, f) is registered a second time
C6_Witness ==
    /\ PlugDone /\ result.k = "return"
    /\ call.query = "p"
    /\ PlugId \in DOMAIN before
    /\ before[PlugId] = result.v

(* ------------------------------- C7 ------------------------------------ *)

\* C7: when f is registered and plug then registers another function g for
\* the same selector and event kind, the two fingerprints differ and both
\* entries are in LISTENERS afterwards, f's entry still calling f.
C7_HandlerIdentity ==
    PlugDone /\ result.k = "return" =>
        \A f \in UserFns \ {call.fn} :
            IdFor(f) \in DOMAIN before /\ before[IdFor(f)] = Wrapper(f) =>
                /\ IdFor(f) # PlugId
                /\ PlugId \in DOMAIN LISTENERS
                /\ IdFor(f) \in DOMAIN LISTENERS
                /\ LISTENERS[IdFor(f)] = Wrapper(f)
                /\ LISTENERS[PlugId] = Wrapper(call.fn)

(* ------------------------------- C8 ------------------------------------ *)

\* C8: for a complete message whose listener is a key of LISTENERS and whose
\* target is a well-formed Element record, receive invokes the stored handler
\* exactly once, with a DomEvent whose event_type is the message's type and
\* whose target is an ElementNode built from the message's target (its
\* tagName, its attributes and the record that find walks); when the handler
\* returns, receive prints nothing and returns.
C8_Dispatch ==
    ReceiveDone =>
        LET msg == Msg
        IN  (/\ Complete(msg)
             /\ WellFormedTarget(msg)
             /\ Registered(msg, before)) =>
                /\ Len(invoked) = 1
                /\ invoked[1].handler = before[Field(msg, "listener").s]
                /\ invoked[1].fn = before[Field(msg, "listener").s].closure
                /\ invoked[1].event.event_type = Field(msg, "type")
                /\ invoked[1].event.target.cls = "ElementNode"
                /\ invoked[1].event.target.tagName
                       = DictGet(Field(msg, "target").d, "tagName", PyNone)
                /\ PyDict(invoked[1].event.target.attributes)
                       = DictGet(Field(msg, "target").d, "attributes", PyDict(<<>>))
                /\ invoked[1].event.target.node = Field(msg, "target").d
                /\ HandlerReturned => stdout = <<>> /\ result = Return(PyNone)

\* C8's case: a handler was invoked with an element that has attributes and
\* children, and returned
C8_Witness ==
    /\ ReceiveDone
    /\ Complete(Msg)
    /\ WellFormedTarget(Msg)
    /\ HandlerReturned
    /\ invoked[1].event.target.attributes # <<>>
    /\ HasKey(invoked[1].event.target.node, "childNodes")
    /\ stdout = <<>>

(* ------------------------------- C9 ------------------------------------ *)

\* C9: for a complete message whose listener, of any JSON type, is not a key
\* of LISTENERS, receive invokes no handler, leaves LISTENERS unchanged and
\* prints exactly one error envelope of type RuntimeError, its msg
\* "No such listener: " followed by the listener.
C9_UnknownListener ==
    ReceiveDone =>
        LET msg == Msg
        IN  Complete(msg) /\ ~Registered(msg, before) =>
                /\ invoked = <<>>
                /\ LISTENERS = before
                /\ EmittedError
                /\ ErrorType = "RuntimeError"
                /\ Field(msg, "listener").t = "str" =>
                       Emitted(ErrorOf("RuntimeError",
                                       "No such listener: "
                                           \o Field(msg, "listener").s))

(* ------------------------------- C10 ----------------------------------- *)

\* C10: for every raw that is valid JSON but no complete message (a field
\* missing or falsy, or a JSON value that is no object), receive invokes no
\* handler and prints exactly one error envelope of type ValueError with msg
\* "Incomplete message received: " followed by raw.
C10_Incomplete ==
    ReceiveDone =>
        LET msg == Msg
        IN  msg.ok /\ ~Complete(msg) =>
                /\ invoked = <<>>
                /\ Emitted(ErrorOf("ValueError",
                                   "Incomplete message received: " \o call.raw))

(* ------------------------------- C11 ----------------------------------- *)

\* the handler that receive invoked raised
HandlerRaised == invoked # <<>> /\ invoked[1].outcome.k = "raise"

\* C11: when the handler that receive invoked raises, whatever it raises,
\* receive returns normally, prints exactly one error envelope whose
\* context.type is the class name of what was raised and whose msg is its
\* text, and the registry is as it was, the handler's entry included.
C11_HandlerRaiseCaught ==
    ReceiveDone /\ HandlerRaised =>
        /\ result = Return(PyNone)
        /\ Emitted(ErrorOf(invoked[1].outcome.ex.cls, invoked[1].outcome.ex.msg))
        /\ LISTENERS = before
        /\ Registered(Msg, LISTENERS)
        /\ LISTENERS[Field(Msg, "listener").s] = invoked[1].handler

\* C12: the key set of LISTENERS is the set of fingerprints registered by
\* plug and not removed since by a successful remove: a plug that returns
\* adds its fingerprint to the keys it found, a remove that returns takes
\* its fingerprint from them, and receive, update, print, every call that
\* raises and the time between calls leave LISTENERS as it was
C12_KeySet ==
    /\ pc = "idle" => LISTENERS = before
    /\ pc = "done" /\ call.op \in {"receive", "update", "print"} => LISTENERS = before
    /\ pc = "done" /\ result.k = "raise" => LISTENERS = before
    /\ PlugDone /\ result.k = "return" =>
           DOMAIN LISTENERS = DOMAIN before \cup {PlugId}
    /\ RemoveDone /\ result.k = "return" =>
           /\ RemoveId \in DOMAIN before
           /\ DOMAIN LISTENERS = DOMAIN before \ {RemoveId}
           /\ \A fp \in DOMAIN LISTENERS : LISTENERS[fp] = before[fp]

\* an update has returned with handlers registered and others removed
C12_Witness ==
    /\ pc = "done" /\ call.op = "update" /\ result.k = "return"
    /\ stdout # <<>>
    /\ Cardinality(DOMAIN LISTENERS) >= 2
    /\ removed # {}

\* C13: tokenize ends, by returning or by raising, after finitely many
\* steps on every markup: no turn of the main loop, of the loop of get_name,
\* of the loop of get_value or of the comment loop leaves the tokenizer in
\* the very state it was in, which would repeat that turn forever
C13_Terminates ==
    /\ tok.pc = "main" => MainStep(tok) # tok
    /\ tok.pc = "name" => NameStep(tok) # tok
    /\ tok.pc = "value" => ValueStep(tok) # tok
    /\ tok.pc = "comment" => CommentStep(tok) # tok

\* the element whose children the tokenizer was given to fill, as it is now
Context == IF tok.ctx # PyNone THEN tok.ctx ELSE tok.chain[tok.base]

\* element.innerHTML = raw has ended
SetDone == tok.pc = "done" /\ tok.op = "innerHTML"

\* C14: parse(render(tree)) == tree: when the innerHTML rendered from a tree
\* of Element, Text, Comment and Fragment nodes has been assigned to the
\* innerHTML of an element, the assignment has returned and the records of
\* the element's children are the records of the tree's children
C14_MarkupRoundTrip ==
    \A t \in Trees :
        SetDone /\ tok.raw = innerHTML(t) =>
            /\ tok.result = Return(PyNone)
            /\ ChildRecords(Context) = ChildRecords(t)

RECURSIVE PyEq(_, _)
\* x == y in Python, for values JSON can hold: dicts are equal when they
\* have the same keys with equal values, in whatever order
PyEq(x, y) ==
    CASE x.t = "dict" /\ y.t = "dict" ->
           /\ Len(x.d) = Len(y.d)
           /\ \A i \in 1..Len(x.d) :
                  /\ HasKey(y.d, x.d[i][1])
                  /\ PyEq(x.d[i][2], DictGet(y.d, x.d[i][1], PyNone))
      [] x.t = "list" /\ y.t = "list" ->
           /\ Len(x.a) = Len(y.a)
           /\ \A i \in 1..Len(x.a) : PyEq(x.a[i], y.a[i])
      [] OTHER -> x = y

RECURSIVE NoParent(_)
\* no dict in v, at any depth, has a "parent" entry
NoParent(v) ==
    CASE v.t = "dict" ->
           /\ ~HasKey(v.d, "parent")
           /\ \A i \in 1..Len(v.d) : NoParent(v.d[i][2])
      [] v.t = "list" -> \A i \in 1..Len(v.a) : NoParent(v.a[i])
      [] OTHER -> TRUE

\* update(query, ElementNode(**r)) has returned for a wire record r: it has
\* printed ElementNode(**r).as_dict
WireUpdateDone ==
    /\ pc = "done" /\ call.op = "update" /\ result.k = "return"
    /\ PyDict(call.target.node) \in WireRecords

\* C15: toRecord(fromRecord(r)) == r: for a wire record r of the fields of
\* the test fixture, ElementNode(**r).as_dict equals r field for field at
\* every depth, and has no parent entry
C15_RecordRoundTrip ==
    WireUpdateDone =>
        /\ PyEq(as_dict(call.target), PyDict(call.target.node))
        /\ NoParent(as_dict(call.target))
        /\ PyEq(Field(Printed, "target"), PyDict(call.target.node))

\* HTMLTokenizer(raw).tokenize(parent) has ended
TokenizeDone == tok.pc = "done" /\ tok.op = "tokenize"

\* the trees of non-textarea elements and text, whose markup is well balanced
BalancedTrees == {ElementNode(r).node : r \in BalancedRecords}

\* C16: when tokenize has been handed the well-balanced markup of a tree of
\* non-textarea elements with attributes and of text runs, it has returned
\* and the parse context has the children it had, followed by the top-level
\* nodes of the markup in document order, each element with exactly the
\* nodes between its open and its close tag as its children
C16_WellBalanced ==
    \A t \in BalancedTrees :
        TokenizeDone /\ tok.raw = innerHTML(t) /\ tok.chain # <<>> =>
            /\ tok.result = Return(PyNone)
            /\ ChildRecords(Context) = tok.found \o ChildRecords(t)

\* the tag names of the elements the markup has opened and not closed
MarkupOpen ==
    {tok.chain[i].tagName : i \in (tok.base + 1)..Len(tok.chain)} \cup
    (IF tok.cn = "new" THEN {tok.node.tagName} ELSE {})

\* the name of a closing tag has been read, and it is the name of no element
\* that the markup has opened and not closed
StrayClose ==
    /\ tok.pc = "name" /\ tok.ret = "close"
    /\ ~(isalpha(tok.char) \/ isdigit(tok.char) \/ In(tok.char, "_-."))
    /\ tok.ctx = PyNone
    /\ PyStr(tok.acc) \notin MarkupOpen

\* C17: a closing tag for which the markup has no open element makes
\* tokenize raise ValueError("Unexpected close tag.", name), whatever the
\* name is, the tag name of the parse context included
C17_UnexpectedClose ==
    StrayClose =>
        NameStep(tok).result =
            Raise(Exc("ValueError",
                      "('Unexpected close tag.', " \o ReprStr(tok.acc) \o ")"))

\* the next turn of the loop the tokenizer is in leaves its state as it is:
\* the loop goes on forever
Stuck ==
    \/ tok.pc = "main" /\ MainStep(tok) = tok
    \/ tok.pc = "name" /\ NameStep(tok) = tok
    \/ tok.pc = "value" /\ ValueStep(tok) = tok
    \/ tok.pc = "comment" /\ CommentStep(tok) = tok

\* markup that ends, right after a ">" or a text run, with elements still
\* open, and the records of the nodes that were complete before the first
\* of them was opened
Unclosed ==
    {[raw |-> "<div><p>x", complete |-> <<>>],
     [raw |-> "<a></a><b>", complete |-> <<ElementRecord("a", <<>>, <<>>)>>],
     [raw |-> "<a></a><b><c></c>", complete |-> <<ElementRecord("a", <<>>, <<>>)>>],
     [raw |-> "<p><!--c-->", complete |-> <<>>],
     [raw |-> "<p> ", complete |-> <<>>]}

\* C18: when the input ends with elements still open, tokenize returns
\* normally, and the parse context has the children it had and the nodes
\* that were complete before the unclosed element was opened: the unclosed
\* element and what was parsed inside it are not attached
C18_UnclosedAccepted ==
    \A u \in Unclosed :
        tok.op = "tokenize" /\ tok.raw = u.raw /\ tok.chain # <<>> =>
            /\ ~Stuck
            /\ tok.pc = "done" =>
                   /\ tok.result = Return(PyNone)
                   /\ PyEq(PyList(ChildRecords(Context)),
                           PyList(tok.found \o u.complete))

\* the record of a textarea without attributes
TextareaRecord(v) == ValueRecord("textarea", <<>>, v)

\* C19: for a text v without "</textarea>" and a container element e,
\* e.innerHTML = "<textarea>" + v + "</textarea>" returns and leaves e with exactly one child, a textarea with
\* value v and no children, and e.innerHTML reads as the string assigned
C19_TextareaVerbatim ==
    \A v \in TextareaValues :
        (tok.op = "innerHTML" /\ tok.raw = "<textarea>" \o v \o "</textarea>"
            /\ Context.tagName # PyStr("textarea")) =>
            /\ ~Stuck
            /\ tok.pc = "done" =>
                   /\ tok.result = Return(PyNone)
                   /\ Len(childNodes(Context)) = 1
                   /\ childNodes(Context)[1].cls = "ElementNode"
                   /\ childNodes(Context)[1].tagName = PyStr("textarea")
                   /\ childNodes(Context)[1].value = PyStr(v)
                   /\ childNodes(childNodes(Context)[1]) = <<>>
                   /\ PyEq(PyList(ChildRecords(Context)), PyList(<<TextareaRecord(v)>>))
                   /\ innerHTML(Context) = tok.raw

\* a textarea whose text has "<" and ">" in it has been assigned and read back
C19_Witness ==
    /\ SetDone /\ tok.raw = "<textarea>Test <fake html></textarea>"
    /\ tok.result = Return(PyNone)
    /\ innerHTML(Context) = "<textarea>Test <fake html></textarea>"

\* markup with a textarea inside a container element: as its first child,
\* after text, and after an element; and the container's record
TextareaInside ==
    {[raw |-> "<div><textarea>v</textarea></div>",
      container |-> ElementRecord("div", <<>>, <<TextareaRecord("v")>>)],
     [raw |-> "<div>a<textarea>v</textarea></div>",
      container |-> ElementRecord("div", <<>>, <<TextRecord("a"), TextareaRecord("v")>>)],
     [raw |-> "<div><p></p><textarea>v</textarea></div>",
      container |-> ElementRecord("div", <<>>,
                        <<ElementRecord("p", <<>>, <<>>), TextareaRecord("v")>>)],
     [raw |-> "<div><textarea>v</textarea><p>q</p></div>",
      container |-> ElementRecord("div", <<>>,
                        <<TextareaRecord("v"),
                          ElementRecord("p", <<>>, <<TextRecord("q")>>)>>)]}

\* the close tag just read makes the tokenizer add current_node to
\* current_parent while both are the same element
SelfAdd ==
    /\ tok.pc = "name" /\ tok.ret = "close"
    /\ ~(isalpha(tok.char) \/ isdigit(tok.char) \/ In(tok.char, "_-."))
    /\ tok.cn = "top"
    /\ PyStr(tok.acc) = Top(tok).tagName

\* C20: a textarea inside a container element, at any position among its
\* children, becomes a child of that element, and the container is attached
\* to its own parent when its close tag is read: after p.innerHTML = raw, p
\* has the container as its one child, with the textarea among the
\* container's children; and no element is added as a child of itself
C20_TextareaInside ==
    /\ ~SelfAdd
    /\ \A m \in TextareaInside :
           SetDone /\ tok.raw = m.raw =>
               /\ tok.result = Return(PyNone)
               /\ PyEq(PyList(ChildRecords(Context)), PyList(<<m.container>>))

\* update(query, target) has ended
UpdateDone == pc = "done" /\ call.op = "update"

\* the kind and the target the classification rule gives a query string
KindOf(query) ==
    CASE At(query, 1) = "#" -> "id"
      [] At(query, 1) = "." -> "classname"
      [] query # "" /\ (\A i \in 1..Len(query) : At(query, i) \in Letters) -> "tag"
      [] OTHER -> "css"

TargetOf(query) ==
    IF KindOf(query) \in {"id", "classname"} THEN SubSeq(query, 2, Len(query))
    ELSE query

\* C21: Query(raw) fails, with a ValueError, exactly for "", "#" and ".";
\* for every other string it gives the kind id with the remainder for a
\* leading "#", classname with the remainder for a leading ".", tag with
\* the string as it is for an alphabetic string, css with the whole string
\* for anything else, and raw_query is the string handed in
C21_Classification ==
    UpdateDone =>
        /\ result.k = "raise" <=> call.query \in {"", "#", "."}
        /\ result.k = "raise" <=> ~CallQuery.ok
        /\ result.k = "raise" => result.ex = CallQuery.ex /\ result.ex.cls = "ValueError"
        /\ result.k = "return" =>
               /\ CallQuery.q.query_type = KindOf(call.query)
               /\ CallQuery.q.attrs[KindOf(call.query)] = TargetOf(call.query)
               /\ CallQuery.q.raw_query = call.query
               /\ Len(stdout) = 1
               /\ LET msg == Printed
                  IN  /\ msg.ok
                      /\ Field(msg, "query") =
                             PyDict(<< <<KindOf(call.query), PyStr(TargetOf(call.query))>> >>)

\* update has been called with a class selector and with a mixed-case tag
C21_Witness ==
    /\ UpdateDone /\ result.k = "return"
    /\ call.query = "pQ"
    /\ Field(Printed, "query") = PyDict(<< <<"tag", PyStr("pQ")>> >>)

\* the four kinds of query
Kinds == {"id", "tag", "classname", "css"}

\* C22: a Query that was constructed has exactly one of the four kinds
\* populated, with a target that is not empty, and the query field of the
\* registerEvent, removeEvent or updateDOM envelope printed for it is a
\* mapping with exactly one key, that kind, mapped to that target
C22_OneKind ==
    pc = "done" /\ call.op \in {"plug", "remove", "update"} /\ CallQuery.ok =>
        /\ Cardinality(DOMAIN CallQuery.q.attrs) = 1
        /\ DOMAIN CallQuery.q.attrs = {CallQuery.q.query_type}
        /\ CallQuery.q.query_type \in Kinds
        /\ CallQuery.q.attrs[CallQuery.q.query_type] # ""
        /\ result.k = "return" =>
               /\ Len(stdout) = 1
               /\ LET msg == Printed
                  IN  /\ msg.ok
                      /\ Field(msg, "type") \in
                             {PyStr("registerEvent"), PyStr("removeEvent"),
                              PyStr("updateDOM")}
                      /\ Field(msg, "query").t = "dict"
                      /\ Len(Field(msg, "query").d) = 1
                      /\ Field(msg, "query").d[1] =
                             <<CallQuery.q.query_type,
                               PyStr(CallQuery.q.attrs[CallQuery.q.query_type])>>

\* a removeEvent envelope has been printed for an id query
C22_Witness ==
    /\ RemoveDone /\ result.k = "return"
    /\ Len(stdout) = 1
    /\ Field(Printed, "type") = PyStr("removeEvent")
    /\ Field(Printed, "query") = PyDict(<< <<"id", PyStr("a")>> >>)

(* ------------------------------- C23 ----------------------------------- *)

\* find(selector) has ended
FindDone == pc = "done" /\ call.op = "find"

\* the children of an element that are elements
ElementChildren(e) == SelectSeq(childNodes(e), LAMBDA n : n.cls = "ElementNode")

RECURSIVE Concat(_, _)
\* the sequences of seqs, from the i-th on, one after the other
Concat(seqs, i) == IF i > Len(seqs) THEN <<>> ELSE seqs[i] \o Concat(seqs, i + 1)

RECURSIVE PreOrder(_)
\* the elements of a tree in depth-first pre-order: the root, then the
\* subtree of each of its element children in order
PreOrder(e) ==
    <<e>> \o Concat([i \in 1..Len(ElementChildren(e)) |->
                        PreOrder(ElementChildren(e)[i])], 1)

\* the part of a selector after its first character
Rest(selector) == SubSeq(selector, 2, Len(selector))

\* the elements of the tree searched whose id attribute is t
WithId(t) ==
    SelectSeq(PreOrder(call.self),
              LAMBDA e : DictGet(e.attributes, "id", PyNone) = PyStr(t))

\* C23: find("#t") returns the first element, in depth-first pre-order,
\* whose id attribute is t, the root itself when the root has that id, and
\* None, raising nothing, when no element has it; what it returns is never a
\* text, a comment or a fragment
C23_FindById ==
    FindDone /\ At(call.selector, 1) = "#" /\ Rest(call.selector) # "" =>
        /\ result.k = "return"
        /\ WithId(Rest(call.selector)) = <<>> => result.v = PyNone
        /\ WithId(Rest(call.selector)) # <<>> =>
               /\ result.v = WithId(Rest(call.selector))[1]
               /\ result.v.cls = "ElementNode"
        /\ DictGet(call.self.attributes, "id", PyNone) = PyStr(Rest(call.selector)) =>
               result.v = call.self

\* the id is carried by two elements below the root, and the one found is
\* the first of them in pre-order, a grandchild of the root
C23_Witness ==
    /\ FindDone /\ call.selector = "#foo"
    /\ Len(WithId("foo")) = 2
    /\ result.k = "return"
    /\ result.v # call.self
    /\ result.v.tagName = PyStr("li")

(* ------------------------------- C24 ----------------------------------- *)

\* the class names of a class attribute: its longest runs without a blank
ClassNames(v) ==
    IF v.t # "str" THEN {}
    ELSE {SubSeq(v.s, a, b) : a \in 1..Len(v.s), b \in 1..Len(v.s)} \cap
         {SubSeq(v.s, ab[1], ab[2]) :
             ab \in {x \in (1..Len(v.s)) \X (1..Len(v.s)) :
                        /\ x[1] <= x[2]
                        /\ \A i \in x[1]..x[2] : At(v.s, i) # " "
                        /\ x[1] = 1 \/ At(v.s, x[1] - 1) = " "
                        /\ x[2] = Len(v.s) \/ At(v.s, x[2] + 1) = " "}}

\* the elements of the tree searched that have the class c
WithClass(c) ==
    SelectSeq(PreOrder(call.self),
              LAMBDA e : c \in ClassNames(DictGet(e.attributes, "class", PyStr(""))))

\* C24: find(".c") returns the list of the elements of the tree, the root
\* included, that have c among the names of their class attribute split at
\* blanks, in depth-first pre-order and each once; the list is empty when
\* there is none
C24_FindByClass ==
    FindDone /\ At(call.selector, 1) = "." /\ Rest(call.selector) # "" =>
        result = Return(PyList(WithClass(Rest(call.selector))))

\* the class foo is found on the root, on a grandchild whose class
\* attribute has doubled blanks and on two more elements, and not on the
\* element of class foobar
C24_Witness ==
    /\ FindDone /\ call.selector = ".foo"
    /\ result.k = "return"
    /\ Len(result.v.a) = 4
    /\ result.v.a[1] = call.self
    /\ result.v.a[3].tagName = PyStr("b")
    /\ \E i \in 1..Len(PreOrder(call.self)) :
           DictGet(PreOrder(call.self)[i].attributes, "class", PyNone) = PyStr("foobar")

(* ------------------------------- C25 ----------------------------------- *)

\* an alphabetic selector
Alphabetic(selector) ==
    selector # "" /\ \A i \in 1..Len(selector) : At(selector, i) \in Letters

\* the elements of the tree searched whose tagName is name
WithTag(name) ==
    SelectSeq(PreOrder(call.self), LAMBDA e : e.tagName = PyStr(name))

\* C25: for an alphabetic selector s, find(s) returns the list of the
\* elements of the tree, the root included, whose tagName is exactly s, no
\* case folded, in depth-first pre-order; so an element the tokenizer made
\* with the tag name s is found by find(s)
C25_FindByTagExact ==
    FindDone /\ Alphabetic(call.selector) =>
        result = Return(PyList(WithTag(call.selector)))

(* ------------------------------- C26 ----------------------------------- *)

\* t is s with its upper-case letters replaced by the lower-case ones
FoldsTo(s, t) ==
    /\ Len(s) = Len(t)
    /\ \A i \in 1..Len(s) :
           \/ \E k \in 1..26 : /\ At(s, i) = At("ABCDEFGHIJKLMNOPQRSTUVWXYZ", k)
                               /\ At(t, i) = At("abcdefghijklmnopqrstuvwxyz", k)
           \/ /\ \A k \in 1..26 : At(s, i) # At("ABCDEFGHIJKLMNOPQRSTUVWXYZ", k)
              /\ At(t, i) = At(s, i)

\* C26: find raises ValueError for "", for "#", for "." and for every
\* selector that is neither "#t", ".c" nor alphabetic (a css selector is
\* never evaluated); it answers "#t" with the id search for t, ".c" with the
\* class search for c, and an alphabetic selector with the tag search for
\* the selector in lower case
C26_FindRoutes ==
    FindDone =>
        /\ result.k \in {"return", "raise"}
        /\ result.k = "raise" <=>
               \/ call.selector \in {"", "#", "."}
               \/ /\ At(call.selector, 1) \notin {"#", "."}
                  /\ ~Alphabetic(call.selector)
        /\ result.k = "raise" => result.ex.cls = "ValueError"
        /\ At(call.selector, 1) = "#" /\ Rest(call.selector) # "" =>
               result = Return(find_by_id(call.self, Rest(call.selector)))
        /\ At(call.selector, 1) = "." /\ Rest(call.selector) # "" =>
               result = Return(PyList(find_by_class(call.self, Rest(call.selector))))
        /\ Alphabetic(call.selector) =>
               \E name \in {"div", "li", "p", "b", "textarea", "x"} :
                   /\ FoldsTo(call.selector, name)
                   /\ result = Return(PyList(find_by_tagName(call.self, name)))

\* find("DIV") has given the elements named div, and not the one named DIV
\* that the tree holds
C26_Witness ==
    /\ FindDone /\ call.selector = "DIV"
    /\ result.k = "return"
    /\ result.v.a = <<call.self>>
    /\ call.self.tagName = PyStr("div")
    /\ \E i \in 1..Len(PreOrder(call.self)) :
           PreOrder(call.self)[i].tagName = PyStr("DIV")

(* ------------------------------- C27 ----------------------------------- *)

\* the elements of the tree of x when x is an element, none otherwise
ElementsOf(x) ==
    IF "cls" \in DOMAIN x /\ x.cls = "ElementNode" THEN PreOrder(x) ELSE <<>>

\* the elements in the state: the tokenizer's parent and its ancestors, the
\* node it is building, the element a call was made on, before the call and
\* after it, the elements a call returned, and all the elements of their trees
ElementsAbout ==
    Concat([i \in 1..Len(tok.chain) |-> ElementsOf(tok.chain[i])], 1)
        \o ElementsOf(tok.node) \o ElementsOf(tok.ctx)
        \o (IF "self" \in DOMAIN call THEN ElementsOf(call.self) ELSE <<>>)
        \o (IF "after" \in DOMAIN call THEN ElementsOf(call.after) ELSE <<>>)
        \o (IF result.k = "return" /\ "t" \in DOMAIN result.v /\ result.v.t = "list"
            THEN Concat([i \in 1..Len(result.v.a) |-> ElementsOf(result.v.a[i])], 1)
            ELSE IF result.k = "return" THEN ElementsOf(result.v) ELSE <<>>)

\* a raw-text leaf when named textarea, a container otherwise
LeafOrContainer(e) ==
    IF e.tagName = PyStr("textarea")
    THEN /\ "value" \in DOMAIN e
         /\ childNodes(e) = <<>>
         /\ HasKey(as_dict(e).d, "value")
         /\ DictGet(as_dict(e).d, "value", PyNone) = e.value
         /\ ChildRecords(e) = <<>>
    ELSE /\ "value" \notin DOMAIN e
         /\ ~HasKey(as_dict(e).d, "value")

AgainDone == pc = "done" /\ call.op = "innerHTML" /\ tok.pc = "done"

\* the records of the children the markup of AgainMarkups stands for
ParsedFrom(b) ==
    CASE b = "" -> <<>>
      [] b = "x" -> <<TextRecord("x")>>
      [] b = "<p>a</p><!--c-->" ->
           <<ElementRecord("p", <<>>, <<TextRecord("a")>>), CommentRecord("c")>>
      [] b = "<textarea>v</textarea>" -> <<TextareaRecord("v")>>

\* C28: on an element that is no textarea, e.innerHTML = a followed by
\* e.innerHTML = b leaves e with exactly the children parsed from b, none
\* of those a or add_child gave it; after e.innerHTML = "" the element has no
\* children and its innerHTML reads ""; tagName and attributes are as before
C28_Replaces ==
    /\ (AgainDone /\ call.self.tagName # PyStr("textarea")) =>
           /\ tok.result = Return(PyNone)
           /\ PyEq(PyList(ChildRecords(Context)), PyList(ParsedFrom(tok.raw)))
           /\ Context.tagName = call.self.tagName
           /\ Context.attributes = call.self.attributes
           /\ as_dict(Context) =
                  as_dict([call.self EXCEPT
                              !.node = DictSet(@, "childNodes",
                                               PyList(Children(Context)))])
    /\ (SetDone /\ tok.raw = "" /\ Context.tagName # PyStr("textarea")) =>
           /\ tok.result = Return(PyNone)
           /\ childNodes(Context) = <<>>
           /\ innerHTML(Context) = ""
           /\ \E chain \in Contexts :
                  /\ Context.tagName = chain[Len(chain)].tagName
                  /\ Context.attributes = chain[Len(chain)].attributes

\* an element with an attribute was assigned markup that left it children,
\* then markup of one element and a comment, and holds the latter only
C28_Witness ==
    /\ AgainDone /\ tok.raw = "<p>a</p><!--c-->"
    /\ call.raw = "<a></a><b><c></c>"
    /\ call.self.attributes # <<>>
    /\ Len(childNodes(call.self)) > 0
    /\ Len(childNodes(Context)) = 2
    /\ innerHTML(Context) = "<p>a</p><!--c-->"

(* ------------------------------- C29 ----------------------------------- *)

\* self.childNodes has been read
ReadDone == pc = "done" /\ call.op = "childNodes"

\* the class of the node a record stands for, by its nodeType
ClassOf(nodeType) ==
    CASE nodeType = PyInt(1) -> "ElementNode"
      [] nodeType = PyInt(3) -> "TextNode"
      [] nodeType = PyInt(8) -> "CommentNode"
      [] OTHER -> "FragmentNode"

\* a dict without its "parent" entry
Orphan(v) == PyDict(SelectSeq(v.d, LAMBDA kv : kv[1] # "parent"))

\* C29: childNodes read again gives trees equal to those of the first
\* reading, and so every time after; each child is of the class its record's
\* nodeType names (1, 3, 8, Fragment otherwise) and has its parent set; the
\* element's as_dict is the same after the reading as before, and the record
\* the element holds differs from the one it held in "parent" entries only
C29_ChildNodesIdempotent ==
    ReadDone =>
        /\ result = Return(PyList(childNodes(call.after)))
        /\ Touched(call.after) = call.after
        /\ Len(result.v.a) =
               IF call.self.tagName = PyStr("textarea") THEN 0
               ELSE Len(Children(call.self))
        /\ \A i \in 1..Len(result.v.a) :
               /\ result.v.a[i].cls =
                      ClassOf(DictGet(Children(call.self)[i].d, "nodeType", PyNone))
               /\ result.v.a[i].parent = ParentRef
               /\ as_dict(result.v.a[i]) = as_dict(childNodes(call.after)[i])
        /\ as_dict(call.after) = as_dict(call.self)
        /\ Len(Children(call.after)) = Len(Children(call.self))
        /\ \A i \in 1..Len(Children(call.self)) :
               Orphan(Children(call.after)[i]) = Orphan(Children(call.self)[i])
        /\ [call.after EXCEPT !.node = DictSet(@, "childNodes", PyNone)]
               = [call.self EXCEPT !.node = DictSet(@, "childNodes", PyNone)]

\* the children read are an element, a text, a comment and a fragment among
\* others, and a record that named no parent now names one
C29_Witness ==
    /\ ReadDone
    /\ {result.v.a[i].cls : i \in 1..Len(result.v.a)}
           = {"ElementNode", "TextNode", "CommentNode", "FragmentNode"}
    /\ call.after # call.self

(* ------------------------------- C30 ----------------------------------- *)

\* self.add_child(child) has returned
AddDone == pc = "done" /\ call.op = "add_child"

\* the record of what add_child was handed, without a parent
RecordOf(child) ==
    IF "cls" \in DOMAIN child THEN as_dict(child) ELSE Orphan(child)

\* C30: add_child(c) on an element that is no textarea, c a Node or a
\* record, makes childNodes one longer; the children there were are the
\* same in the same order; the new last child is of the class c's nodeType
\* names, has c's content, and has its parent set
C30_AddChildAppends ==
    (AddDone /\ call.self.tagName # PyStr("textarea")) =>
        /\ result = Return(PyNone)
        /\ Len(childNodes(call.after)) = Len(childNodes(call.self)) + 1
        /\ SubSeq(childNodes(call.after), 1, Len(childNodes(call.self)))
               = childNodes(call.self)
        /\ SubSeq(Children(call.after), 1, Len(Children(call.self)))
               = Children(call.self)
        /\ childNodes(call.after)[Len(childNodes(call.after))].cls =
               ClassOf(DictGet(RecordOf(call.child).d, "nodeType", PyNone))
        /\ "cls" \in DOMAIN call.child =>
               childNodes(call.after)[Len(childNodes(call.after))].cls = call.child.cls
        /\ PyEq(as_dict(childNodes(call.after)[Len(childNodes(call.after))]),
                RecordOf(call.child))
        /\ childNodes(call.after)[Len(childNodes(call.after))].parent = ParentRef
        /\ call.after.tagName = call.self.tagName
        /\ call.after.attributes = call.self.attributes

\* an element record was added to an element that had children: it is the
\* last of them, an element with its attribute and its text
C30_Witness ==
    /\ AddDone /\ result = Return(PyNone)
    /\ call.child = ElementRecord("p", << <<"id", PyStr("r")>> >>, <<TextRecord("r")>>)
    /\ Len(childNodes(call.self)) = 2
    /\ Len(childNodes(call.after)) = 3
    /\ outerHTML(childNodes(call.after)[3]) = "<p id=\"r\">r</p>"

(* ------------------------------- C31 ----------------------------------- *)

\* C31: update(s, target) with a valid selector prints exactly one envelope,
\* of type updateDOM, with Query(s).as_dict as query and target.as_dict as
\* target, and that target equals the record the target node was built from;
\* LISTENERS is as before and the target node reads as it did; with an
\* invalid selector update raises ValueError and prints nothing
C31_UpdateEnvelope ==
    UpdateDone =>
        /\ LISTENERS = before
        /\ as_dict(call.after) = as_dict(call.target)
        /\ call.after.tagName = call.target.tagName
        /\ call.after.attributes = call.target.attributes
        /\ call.query \in {"", "#", "."} =>
               /\ result.k = "raise" /\ result.ex.cls = "ValueError"
               /\ stdout = <<>>
        /\ call.query \notin {"", "#", "."} =>
               /\ result = Return(PyNone)
               /\ Len(stdout) = 1
               /\ LET msg == Printed
                  IN  /\ msg.ok
                      /\ msg.v.t = "dict"
                      /\ {msg.v.d[i][1] : i \in 1..Len(msg.v.d)}
                             = {"type", "query", "target"}
                      /\ Field(msg, "type") = PyStr("updateDOM")
                      /\ Field(msg, "query") =
                             PyDict(<< <<KindOf(call.query),
                                         PyStr(TargetOf(call.query))>> >>)
                      /\ PyEq(Field(msg, "target"), as_dict(call.target))
                      /\ PyDict(call.target.node) \in WireRecords =>
                             PyEq(Field(msg, "target"), PyDict(call.target.node))

(* ------------------------------- C32 ----------------------------------- *)

\* a statement on an Attributes map has ended
AttrDone == pc = "done" /\ call.op \in {"getattr", "setattr", "delattr"}

\* the statement raised AttributeError and left the map as it was
MissingRaised ==
    /\ result.k = "raise" /\ result.ex.cls = "AttributeError"
    /\ call.after = call.self

\* C32: on an Attributes map, reading or deleting a key that is not present
\* raises AttributeError and leaves the map unchanged; reading a key just
\* set returns the value set, the empty string included; deleting a key
\* just deleted raises again
C32_MissingIsError ==
    AttrDone =>
        /\ (call.op \in {"getattr", "delattr"} /\ ~HasKey(call.self, call.key)) =>
               MissingRaised
        /\ (call.op = "getattr" /\ call.prev.op = "setattr"
                /\ call.prev.key = call.key) =>
               result = Return(call.prev.value)
        /\ (call.op = "delattr" /\ call.prev.op = "delattr"
                /\ call.prev.key = call.key /\ call.prev.k = "return") =>
               MissingRaised

(* ------------------------------- C33 ----------------------------------- *)

\* markup with a comment, at the top level and inside an open element (as
\* its only child, between two texts, after a closed element), and the
\* records of the nodes the markup stands for
Commented ==
    {[raw |-> "<p></p><!-- c -->x",
      nodes |-> <<ElementRecord("p", <<>>, <<>>), CommentRecord(" c "),
                  TextRecord("x")>>],
     [raw |-> "<div><p></p><!--c--></div>",
      nodes |-> <<ElementRecord("div", <<>>,
                      <<ElementRecord("p", <<>>, <<>>), CommentRecord("c")>>)>>],
     [raw |-> "<p><!--c--></p>",
      nodes |-> <<ElementRecord("p", <<>>, <<CommentRecord("c")>>)>>],
     [raw |-> "<p>a<!-- c -->b</p>",
      nodes |-> <<ElementRecord("p", <<>>,
                      <<TextRecord("a"), CommentRecord(" c "), TextRecord("b")>>)>>]}

\* C33: a comment becomes a child of the container that is current where it
\* occurs: of the element that is open there, in document order among that
\* element's children, or of the parse context at the top level; its value
\* is the text between "<!--" and "-->", untrimmed
C33_CommentInContainer ==
    \A m \in Commented :
        (tok.raw = m.raw /\ tok.pc = "done" /\ tok.chain # <<>>
             /\ Context.tagName # PyStr("textarea")) =>
            /\ tok.result = Return(PyNone)
            /\ PyEq(PyList(ChildRecords(Context)), PyList(tok.found \o m.nodes))

(* ------------------------------- C34 ----------------------------------- *)

\* the ancestors of the parse context as the tokenizer has them
Ancestors == SubSeq(tok.chain, 1, tok.base - 1)

\* C34: tokenize(parent) changes only the child list of parent: when the
\* call has ended, by returning or by raising, parent has the tagName and the
\* attributes it was handed with, and parent's own parent and the ancestors
\* above it hold the records and the child lists they held
C34_OnlyTheContext ==
    (tok.pc = "done" /\ tok.chain # <<>> /\ pc = "idle") =>
        \E chain \in Contexts :
            /\ Len(chain) = tok.base
            /\ Context.tagName = chain[tok.base].tagName
            /\ Context.attributes = chain[tok.base].attributes
            /\ Ancestors = SubSeq(chain, 1, tok.base - 1)

(* ------------------------------- C35 ----------------------------------- *)

\* the strs match and expect are called with
Expected == {"<", "/", "?", "!", "-", ">", "=", "\"'"}

\* the next character of the input that is no whitespace, "" when none is left
NextSeen == skip_ws(tok.raw, Cur(tok)).char

\* C35: wherever the tokenizer stands, match(expected) returns True only
\* when a next non-whitespace character exists and is one of expected, and
\* expect(expected) raises ValueError("Bad HTML syntax.") in every other
\* case, the end of the input included; so a textarea open tag that the
\* input does not follow with "</textarea>" makes tokenize raise that error,
\* and no textarea is appended
C35_MatchAndExpect ==
    tok.pc \in {"main", "name", "value", "comment", "done"} /\ tok.chain # <<>> =>
        /\ \A expected \in Expected :
               /\ match(tok.raw, Cur(tok), expected).ok <=>
                      /\ NextSeen # ""
                      /\ \E i \in 1..Len(expected) : At(expected, i) = NextSeen
               /\ expect(tok.raw, Cur(tok), <<expected>>).ok <=>
                      match(tok.raw, Cur(tok), expected).ok
        /\ tok.raw \in {"<textarea>abc", "<textarea"} =>
               /\ ~Stuck
               /\ tok.pc = "done" =>
                      /\ tok.result = Raise(BadSyntax)
                      /\ ChildRecords(Context) = tok.found

(* ------------------------------- C36 ----------------------------------- *)

\* markup with runs of text, with blanks before, inside and after them, at
\* the top level and inside an element, and the records of the nodes the
\* markup stands for
TextRuns ==
    {[raw |-> "x", nodes |-> <<TextRecord("x")>>],
     [raw |-> "x ", nodes |-> <<TextRecord("x ")>>],
     [raw |-> " x", nodes |-> <<TextRecord(" x")>>],
     [raw |-> "<p> a </p>",
      nodes |-> <<ElementRecord("p", <<>>, <<TextRecord(" a ")>>)>>],
     [raw |-> "<p>a<b>c</b>d</p>",
      nodes |-> <<ElementRecord("p", <<>>,
                      <<TextRecord("a"),
                        ElementRecord("b", <<>>, <<TextRecord("c")>>),
                        TextRecord("d")>>)>>]}

\* C36: a run of characters that starts no tag becomes one Text node whose
\* value is every character from the end of the tag before it, or the start
\* of the input, up to the next "<" or the end of the input, the whitespace
\* it begins and ends with included; it is a child of the element that is
\* open there, or of the parse context when none is
C36_TextRuns ==
    \A m \in TextRuns :
        (tok.raw = m.raw /\ tok.pc = "done" /\ tok.chain # <<>>
             /\ Context.tagName # PyStr("textarea")) =>
            /\ tok.result = Return(PyNone)
            /\ PyEq(PyList(ChildRecords(Context)), PyList(tok.found \o m.nodes))

(* ------------------------------- C37 ----------------------------------- *)

\* get_attrs is about to return: get_name has found no further name
AttrsRead ==
    /\ tok.pc = "name" /\ tok.ret = "attr"
    /\ tok.acc = ""
    /\ ~(isalpha(tok.char) \/ isdigit(tok.char) \/ In(tok.char, "_-."))

\* markup whose first tag is a p with attributes: quoted with " and with ',
\* without "=", with blanks around "=", unquoted, and opened with one quote
\* and closed with the other; and the map claimed for them
AttrTags ==
    {[raw |-> "<p id=\"a\" class='b c'>x</p>",
      attrs |-> << <<"id", PyStr("a")>>, <<"class", PyStr("b c")>> >>],
     [raw |-> "<p id>x</p>", attrs |-> << <<"id", PyStr("")>> >>],
     [raw |-> "<p a b= 'c;d' >x</p>",
      attrs |-> << <<"a", PyStr("")>>, <<"b", PyStr("c;d")>> >>],
     [raw |-> "<p id=a>x</p>", attrs |-> << <<"id", PyStr("")>> >>],
     [raw |-> "<p id=\"a'>x</p>", attrs |-> << <<"id", PyStr("")>> >>]}

\* C37: get_attrs returns a map with one entry per attribute name read:
\* name='v' and name="v" map to v, a name without "=" maps to "", and a name
\* whose value is not enclosed in a pair of the same quote character
\* (unquoted, or opened with one quote and closed with the other) maps to ""
\* and adds no further entry; get_attrs does not raise
C37_AttributeMap ==
    /\ \A m \in AttrTags :
           (tok.raw = m.raw /\ AttrsRead) =>
               PyEq(PyDict(tok.attrs), PyDict(m.attrs))
    /\ (tok.pc \in {"name", "value"} /\ tok.ret = "attr" /\ ~AttrsRead) =>
           /\ tok.pc = "name" => NameStep(tok).pc \in {"name", "value"}
           /\ tok.pc = "value" => ValueStep(tok).pc \in {"name", "value"}

(* ------------------------------- C38 ----------------------------------- *)

\* the valid (selector, event kind) pairs other than the one of the call
OtherPoints ==
    {pp \in PlugPoints :
        Query(pp[1]).ok /\ (pp[1] # call.query \/ pp[2] # call.event_type)}

\* the fingerprint of the pair pp for the handler h
IdAt(pp, h) == get_listener_id(Query(pp[1]).q, pp[2], h)

\* C38: for the same handler, a pair that differs from the pair of the call in
\* selector or in event kind has a different fingerprint, also when the two
\* concatenations of selector and event kind are the same string; so a plug
\* leaves the entry of the other pair as it was and a remove leaves it
\* registered.
C38_PairsApart ==
    /\ (PlugDone /\ result.k = "return") =>
           \A pp \in OtherPoints :
               /\ IdAt(pp, result.v) # PlugId
               /\ IdAt(pp, result.v) \in DOMAIN before =>
                      /\ IdAt(pp, result.v) \in DOMAIN LISTENERS
                      /\ LISTENERS[IdAt(pp, result.v)] = before[IdAt(pp, result.v)]
    /\ (RemoveDone /\ result.k = "return") =>
           \A pp \in OtherPoints :
               /\ IdAt(pp, call.listener) # RemoveId
               /\ IdAt(pp, call.listener) \in DOMAIN before =>
                      IdAt(pp, call.listener) \in DOMAIN LISTENERS

====
